---- MODULE Spec2Model ----
(***************************************************************************)
(* Model of the NearNow event-search pipeline                              *)
(* (src/src/services/predicthq.ts): geocodeLocation, transformEvent,       *)
(* searchEvents, getPopularEvents, getEventById and getEventsByIds, and of *)
(* the saved-events service on localStorage (src/unnamed/part_005), the    *)
(* event card and the event detail page (src/unnamed/part_000, part_003)   *)
(* and the discover page with its filter inputs (dashboard/page.tsx,       *)
(* components/events/SearchFilters.tsx).                                   *)
(*                                                                         *)
(* Representation of JavaScript values                                     *)
(*   - a string is a sequence of tokens; a token is one character, except  *)
(*     that a literal piece of text of the source is kept as one token;    *)
(*   - an optional value (a field that may be undefined) is the empty      *)
(*     sequence None when absent and the one-element sequence Some(v)      *)
(*     when present;                                                       *)
(*   - numbers are integers.                                               *)
(***************************************************************************)
EXTENDS Integers, Sequences, FiniteSets, TLC

VARIABLES
    tr,         \* transformEvent harness: the provider record and the Event made of it
    config,     \* module constants PREDICTHQ_API_TOKEN / PREDICTHQ_API_BASE
    se,         \* one invocation of searchEvents
    ge,         \* one invocation of getEventById
    ba,         \* one invocation of getEventsByIds and its per-id getEventById calls
    requests,   \* every network request issued so far (fetch calls), in order
    po,         \* one invocation of getPopularEvents
    storage,    \* localStorage: the item stored under SAVED_EVENTS_KEY
    ctx,        \* the browsing contexts (tabs) calling the saved-events service
    gc,         \* one invocation of geocodeLocation
    session,    \* sessionStorage: the items stored by the event cards
    dp,         \* the event detail page (EventDetailPage)
    sf,         \* the state of the SearchFilters component
    dash        \* the discover page (DiscoverEventsPage)

vars == <<tr, config, se, ge, ba, requests, po, storage, ctx, gc, session, dp, sf, dash>>

\* the state of the geocoder harness and of the pages
pageVars == <<gc, session, dp, sf, dash>>

(***************************************************************************)
(* Optional values and JavaScript truthiness                               *)
(***************************************************************************)
None == <<>>

Some(v) == <<v>>

IsSome(o) == Len(o) = 1

\* truthiness of an optional string: undefined and "" are falsy
TruthyStr(o) == IsSome(o) /\ Len(o[1]) > 0

\* truthiness of an optional number: undefined and 0 are falsy
TruthyNum(o) == IsSome(o) /\ o[1] # 0

\* a || b on optional strings
OrStr(a, b) == IF TruthyStr(a) THEN a ELSE b

\* a || b on optional numbers
OrNum(a, b) == IF TruthyNum(a) THEN a ELSE b

(***************************************************************************)
(* String helpers                                                          *)
(***************************************************************************)
RECURSIVE JoinWith(_, _)
\* Array.prototype.join(sep)
JoinWith(ss, sep) ==
    IF ss = <<>> THEN <<>>
    ELSE IF Len(ss) = 1 THEN ss[1]
    ELSE ss[1] \o sep \o JoinWith(Tail(ss), sep)

RECURSIVE SplitOn(_, _, _)
\* String.prototype.split(sep) for a one-token separator; cur is the piece being read
SplitOn(s, sep, cur) ==
    IF s = <<>> THEN <<cur>>
    ELSE IF Head(s) = sep THEN <<cur>> \o SplitOn(Tail(s), sep, <<>>)
    ELSE SplitOn(Tail(s), sep, Append(cur, Head(s)))

RECURSIVE TrimLeft(_)
TrimLeft(s) == IF s # <<>> /\ Head(s) = " " THEN TrimLeft(Tail(s)) ELSE s

RECURSIVE TrimRight(_)
TrimRight(s) ==
    IF s # <<>> /\ s[Len(s)] = " " THEN TrimRight(SubSeq(s, 1, Len(s) - 1)) ELSE s

\* String.prototype.trim
Trim(s) == TrimRight(TrimLeft(s))

\* encodeURIComponent on one token: reserved characters are percent-encoded
EncodeToken(c) ==
    CASE c = " " -> <<"%20">>
      [] c = "," -> <<"%2C">>
      [] c = "/" -> <<"%2F">>
      [] c = ":" -> <<"%3A">>
      [] OTHER -> <<c>>

RECURSIVE encodeURIComponent(_)
encodeURIComponent(s) ==
    IF s = <<>> THEN <<>> ELSE EncodeToken(Head(s)) \o encodeURIComponent(Tail(s))

\* whether the string sub occurs in the string s (String.prototype.includes)
Includes(s, sub) ==
    \E i \in 0..(Len(s) - Len(sub)) : SubSeq(s, i + 1, i + Len(sub)) = sub

RECURSIVE NatToStr(_)
\* decimal digits of a natural number
NatToStr(n) ==
    LET d == <<"0", "1", "2", "3", "4", "5", "6", "7", "8", "9">>
    IN  IF n < 10 THEN <<d[n + 1]>> ELSE NatToStr(n \div 10) \o <<d[(n % 10) + 1]>>

\* String(n) for an integer
NumToStr(n) == IF n < 0 THEN <<"-">> \o NatToStr(0 - n) ELSE NatToStr(n)

\* Number.prototype.toFixed(4) for an integer
ToFixed4(n) == NumToStr(n) \o <<".", "0", "0", "0", "0">>

\* the elements of a sequence
Range(seq) == {seq[i] : i \in 1..Len(seq)}

\* Array.prototype.find: the first element of seq that is in the set matching
\* (the elements satisfying the callback), or undefined
Find(seq, matching) ==
    IF \E i \in 1..Len(seq) : seq[i] \in matching
    THEN Some(seq[CHOOSE i \in 1..Len(seq) :
                    seq[i] \in matching /\ \A j \in 1..(i - 1) : seq[j] \notin matching])
    ELSE None

\* Array.prototype.filter: the elements of seq that are in the set matching, in order
Filter(seq, matching) == SelectSeq(seq, LAMBDA x : x \in matching)

(***************************************************************************)
(* transformEvent (predicthq.ts 204-322)                                   *)
(*                                                                         *)
(* A provider record is a record with the fields of PredictHQEvent that    *)
(* transformEvent reads.  location, entities and geo are optional; geo     *)
(* stands for geo.geometry.coordinates, the pair <<longitude, latitude>>.  *)
(***************************************************************************)

\* o?.f for an optional record o whose field f is itself optional
OptField(o, f) == IF IsSome(o) THEN o[1][f] ELSE None

\* the literal separator ", "
CommaSpace == <<",", " ">>

\* the literal "Event Venue" (line 228)
EventVenueText == <<"Event Venue">>

\* the literal "Location available" (line 255)
LocationAvailableText == <<"Location available">>

\* the literal "https://www.google.com/search?q=" (line 295)
GoogleSearchPrefix == <<"https://www.google.com/search?q=">>

\* the literal " tickets " of the search query (line 294)
TicketsText == <<" ", "tickets", " ">>

\* predicthqEvent.location?.[0]
FirstLocation(r) ==
    IF IsSome(r.location) /\ Len(r.location[1]) > 0 THEN Some(r.location[1][1]) ELSE None

\* lines 209-215: coordinates from the location entry, else from the geo field
ResolveGeo(r) ==
    LET fromLocation == OptField(FirstLocation(r), "location")
    IN  IF IsSome(fromLocation) THEN fromLocation
        ELSE IF IsSome(r.geo) THEN Some([lat |-> r.geo[1][2], lon |-> r.geo[1][1]])
        ELSE None

\* predicthqEvent.entities, the empty list when the field is absent (entities?.find)
EntityList(r) == IF IsSome(r.entities) THEN r.entities[1] ELSE <<>>

\* lines 218-220
VenueEntity(r) ==
    Find(EntityList(r), {e \in Range(EntityList(r)) : e.type = "venue"})

\* lines 223-225
EntityWithAddress(r) ==
    LET found == Find(EntityList(r),
                      {e \in Range(EntityList(r)) : TruthyStr(e.formatted_address)})
    IN  IF IsSome(found) THEN found ELSE VenueEntity(r)

\* line 228
VenueName(r) ==
    OrStr(OrStr(OrStr(OptField(VenueEntity(r), "name"),
                      OptField(EntityWithAddress(r), "name")),
                OptField(OptField(FirstLocation(r), "address"), "name")),
          Some(EventVenueText))[1]

\* AddressString in which the top-level country is not one of the joined parts
\* (line 239 without || predicthqEvent.country) and is used after the address name
AddressString_CountryLast(r) ==
    LET address == OptField(FirstLocation(r), "address")
        geo == ResolveGeo(r)
        fromEntity == OrStr(OptField(EntityWithAddress(r), "formatted_address"),
                            OptField(VenueEntity(r), "formatted_address"))
        candidates == <<OptField(address, "street"),
                        OptField(address, "locality"),
                        OptField(address, "region"),
                        OptField(address, "country")>>
        present == Filter(candidates, {c \in Range(candidates) : TruthyStr(c)})
        addressParts == [i \in 1..Len(present) |-> present[i][1]]
        addressName == OptField(address, "name")
    IN  IF TruthyStr(fromEntity) THEN fromEntity[1]
        ELSE IF Len(addressParts) > 0 THEN JoinWith(addressParts, CommaSpace)
        ELSE IF TruthyStr(addressName) /\ addressName[1] # VenueName(r) THEN addressName[1]
        ELSE IF TruthyStr(r.country) THEN r.country[1]
        ELSE IF IsSome(geo) THEN ToFixed4(geo[1].lat) \o CommaSpace \o ToFixed4(geo[1].lon)
        ELSE LocationAvailableText

\* lines 231-257
AddressString(r) ==
    LET address == OptField(FirstLocation(r), "address")
        geo == ResolveGeo(r)
        fromEntity == OrStr(OptField(EntityWithAddress(r), "formatted_address"),
                            OptField(VenueEntity(r), "formatted_address"))
        candidates == <<OptField(address, "street"),
                        OptField(address, "locality"),
                        OptField(address, "region"),
                        OrStr(OptField(address, "country"), r.country)>>
        present == Filter(candidates, {c \in Range(candidates) : TruthyStr(c)})
        addressParts == [i \in 1..Len(present) |-> present[i][1]]
        addressName == OptField(address, "name")
    IN  IF TruthyStr(fromEntity) THEN fromEntity[1]
        ELSE IF Len(addressParts) > 0 THEN JoinWith(addressParts, CommaSpace)
        ELSE IF TruthyStr(addressName) /\ addressName[1] # VenueName(r) THEN addressName[1]
        ELSE IF TruthyStr(r.country) THEN r.country[1]
        ELSE IF IsSome(geo) THEN ToFixed4(geo[1].lat) \o CommaSpace \o ToFixed4(geo[1].lon)
        ELSE LocationAvailableText

\* ResolveCity reading the formatted address of entityWithAddress (the first
\* entity of any type that has one) instead of venueEntity's
ResolveCity_AnyEntity(r) ==
    LET locality == OptField(OptField(FirstLocation(r), "address"), "locality")
        formatted == OptField(EntityWithAddress(r), "formatted_address")
        split == IF TruthyStr(formatted) THEN SplitOn(formatted[1], ",", <<>>) ELSE <<>>
        parts == [i \in 1..Len(split) |-> Trim(split[i])]
    IN  IF ~TruthyStr(locality) /\ TruthyStr(formatted) /\ Len(parts) >= 2
        THEN Some(parts[Len(parts) - 1])
        ELSE locality

\* lines 260-267: the city, an optional string
ResolveCity(r) ==
    LET locality == OptField(OptField(FirstLocation(r), "address"), "locality")
        formatted == OptField(VenueEntity(r), "formatted_address")
        split == IF TruthyStr(formatted) THEN SplitOn(formatted[1], ",", <<>>) ELSE <<>>
        parts == [i \in 1..Len(split) |-> Trim(split[i])]
    IN  IF ~TruthyStr(locality) /\ TruthyStr(formatted) /\ Len(parts) >= 2
        THEN Some(parts[Len(parts) - 1])
        ELSE locality

\* ProviderUrl testing external_url before ticket_url
ProviderUrl_ExternalFirst(r) ==
    IF TruthyStr(r.external_url) THEN r.external_url
    ELSE IF TruthyStr(r.ticket_url) THEN r.ticket_url
    ELSE IF TruthyStr(r.url) THEN r.url
    ELSE IF TruthyStr(r.website) THEN r.website
    ELSE IF IsSome(r.entities)
    THEN LET entityWithUrl ==
                 Find(r.entities[1], {e \in Range(r.entities[1]) :
                                        TruthyStr(OrStr(e.url, e.website))})
         IN  IF IsSome(entityWithUrl)
             THEN OrStr(entityWithUrl[1].url, entityWithUrl[1].website)
             ELSE None
    ELSE None

\* lines 271-289: the provider-supplied URL, an optional string
ProviderUrl(r) ==
    IF TruthyStr(r.ticket_url) THEN r.ticket_url
    ELSE IF TruthyStr(r.external_url) THEN r.external_url
    ELSE IF TruthyStr(r.url) THEN r.url
    ELSE IF TruthyStr(r.website) THEN r.website
    ELSE IF IsSome(r.entities)
    THEN LET entityWithUrl ==
                 Find(r.entities[1], {e \in Range(r.entities[1]) :
                                        TruthyStr(OrStr(e.url, e.website))})
         IN  IF IsSome(entityWithUrl)
             THEN OrStr(entityWithUrl[1].url, entityWithUrl[1].website)
             ELSE None
    ELSE None

\* lines 294-295: the synthesized search-engine URL
SearchUrl(r) ==
    LET locality == OptField(OptField(FirstLocation(r), "address"), "locality")
        cityText == OrStr(OrStr(ResolveCity(r), locality), Some(<<>>))[1]
    IN  GoogleSearchPrefix \o encodeURIComponent(r.title \o TicketsText \o cityText)

\* EventUrl without the fallback of lines 293-296 (url: eventUrl || "")
EventUrl_NoFallback(r) == IF TruthyStr(ProviderUrl(r)) THEN ProviderUrl(r)[1] ELSE <<>>

\* lines 293-296
EventUrl(r) == IF ~TruthyStr(ProviderUrl(r)) THEN SearchUrl(r) ELSE ProviderUrl(r)[1]

\* Venue without the venueEntity alternative of line 309
Venue_NoEntity(r) ==
    LET geo == ResolveGeo(r)
        address == OptField(FirstLocation(r), "address")
    IN  IF IsSome(geo) \/ IsSome(address)
        THEN Some([name |-> VenueName(r),
                   address |-> AddressString(r),
                   city |-> ResolveCity(r),
                   latitude |-> IF IsSome(geo) THEN Some(geo[1].lat) ELSE None,
                   longitude |-> IF IsSome(geo) THEN Some(geo[1].lon) ELSE None])
        ELSE None

\* lines 309-317
Venue(r) ==
    LET geo == ResolveGeo(r)
        address == OptField(FirstLocation(r), "address")
    IN  IF IsSome(geo) \/ IsSome(address) \/ IsSome(VenueEntity(r))
        THEN Some([name |-> VenueName(r),
                   address |-> AddressString(r),
                   city |-> ResolveCity(r),
                   latitude |-> IF IsSome(geo) THEN Some(geo[1].lat) ELSE None,
                   longitude |-> IF IsSome(geo) THEN Some(geo[1].lon) ELSE None])
        ELSE None

\* lines 204-322
transformEvent(r) ==
    [id |-> r.id,
     name |-> r.title,
     description |-> OrStr(r.description, Some(<<>>))[1],
     startDate |-> r.start,
     endDate |-> OrStr(r.end, Some(r.start))[1],
     timezone |-> r.timezone,
     url |-> EventUrl(r),
     imageUrl |-> None,
     venue |-> Venue(r),
     price |-> None,
     category |-> r.category,
     isOnline |-> r.private]

(***************************************************************************)
(* Provider records the model draws from                                   *)
(***************************************************************************)

\* longest entity list of a provider record
MaxEntities == 2

\* sequences over S of length at most n
SeqsUpTo(S, n) == UNION {[1..k -> S] : k \in 0..n}

FormattedMainSt ==
    <<"123", " ", "Main", " ", "St", ",", " ", "Springfield", ",", " ", "USA">>

FormattedBroadSt ==
    <<"5", " ", "Broad", " ", "St", ",", " ", "Lagos", ",", " ", "NG">>

EntityPool ==
    { [name |-> Some(<<"Hall">>), type |-> "venue",
       formatted_address |-> Some(FormattedMainSt), url |-> None, website |-> None],
      [name |-> Some(<<"Arena">>), type |-> "venue",
       formatted_address |-> None, url |-> None, website |-> None],
      [name |-> Some(<<"Tent">>), type |-> "venue",
       formatted_address |-> Some(<<"Lagos">>), url |-> None, website |-> None],
      [name |-> Some(<<"Org">>), type |-> "organizer",
       formatted_address |-> Some(FormattedBroadSt), url |-> Some(<<"E">>), website |-> None],
      [name |-> Some(<<>>), type |-> "performer",
       formatted_address |-> None, url |-> Some(<<>>), website |-> Some(<<"S">>)] }

NoAddressParts ==
    [name |-> None, street |-> None, locality |-> None, region |-> None, country |-> None]

LocationPool ==
    { [location |-> Some([lat |-> 6, lon |-> 3]), address |-> None],
      [location |-> None, address |-> Some(NoAddressParts)],
      [location |-> Some([lat |-> 0, lon |-> -6]),
       address |-> Some([name |-> Some(<<"Hall">>), street |-> None,
                         locality |-> Some(<<"Ikeja">>), region |-> Some(<<>>),
                         country |-> Some(<<"NG">>)])],
      [location |-> None,
       address |-> Some([NoAddressParts EXCEPT !.name = Some(<<"Plaza">>)])] }

LocationChoices == {None, Some(<<>>)} \cup {Some(<<l>>) : l \in LocationPool}

EntityChoices == {None} \cup {Some(es) : es \in SeqsUpTo(EntityPool, MaxEntities)}

\* the fields every record of the model shares
BaseRecord(id) ==
    [id |-> id, title |-> <<"Jazz", " ", "Night">>, description |-> None,
     start |-> <<"2025-01-01T00:00:00Z">>, end |-> None, timezone |-> <<"UTC">>,
     category |-> <<"concerts">>, private |-> FALSE,
     location |-> None, entities |-> None, geo |-> None, country |-> None,
     url |-> None, website |-> None, ticket_url |-> None, external_url |-> None]

ProviderRecords ==
    { [BaseRecord(<<"A">>) EXCEPT
          !.location = loc, !.entities = ents, !.geo = g, !.country = c,
          !.ticket_url = t, !.external_url = x, !.url = u, !.website = w] :
        loc \in LocationChoices, ents \in EntityChoices,
        g \in {None, Some(<<3, 6>>)}, c \in {None, Some(<<"NG">>)},
        t \in {None, Some(<<>>), Some(<<"T">>)}, x \in {None, Some(<<"X">>)},
        u \in {None, Some(<<"U">>)}, w \in {None, Some(<<>>), Some(<<"W">>)} }

(***************************************************************************)
(* geocodeLocation (predicthq.ts 138-199)                                  *)
(*                                                                         *)
(* Place names, Nominatim types and country names are strings of single    *)
(* characters.  importance is in hundredths.  A latitude or longitude of   *)
(* the response is a string, read with parseFloat.                         *)
(***************************************************************************)
UpperLetters ==
    <<"A", "B", "C", "D", "E", "F", "G", "H", "I", "J", "K", "L", "M",
      "N", "O", "P", "Q", "R", "S", "T", "U", "V", "W", "X", "Y", "Z">>

LowerLetters ==
    <<"a", "b", "c", "d", "e", "f", "g", "h", "i", "j", "k", "l", "m",
      "n", "o", "p", "q", "r", "s", "t", "u", "v", "w", "x", "y", "z">>

\* String.prototype.toLowerCase
toLowerCase(s) ==
    [i \in 1..Len(s) |->
        IF \E k \in 1..Len(UpperLetters) : UpperLetters[k] = s[i]
        THEN LowerLetters[CHOOSE k \in 1..Len(UpperLetters) : UpperLetters[k] = s[i]]
        ELSE s[i]]

Digits == <<"0", "1", "2", "3", "4", "5", "6", "7", "8", "9">>

IsDigit(c) == \E k \in 1..Len(Digits) : Digits[k] = c

DigitValue(c) == (CHOOSE k \in 1..Len(Digits) : Digits[k] = c) - 1

RECURSIVE DigitsValue(_, _)
\* the value of the leading run of digits of s, read after the value acc
DigitsValue(s, acc) ==
    IF s # <<>> /\ IsDigit(Head(s))
    THEN DigitsValue(Tail(s), acc * 10 + DigitValue(Head(s)))
    ELSE acc

\* parseFloat on integer text: an optional sign and the leading digits; None is NaN
parseFloat(s) ==
    LET negative == s # <<>> /\ Head(s) = "-"
        body == IF negative THEN Tail(s) ELSE s
    IN  IF body # <<>> /\ IsDigit(Head(body))
        THEN Some(IF negative THEN 0 - DigitsValue(body, 0) ELSE DigitsValue(body, 0))
        ELSE None

\* importance < 0.3, in hundredths (line 188)
LowImportance == 30

TextCountry == <<"c", "o", "u", "n", "t", "r", "y">>

TextPlace == <<"p", "l", "a", "c", "e">>

TextCity == <<"c", "i", "t", "y">>

TextTown == <<"t", "o", "w", "n">>

TextNigeria == <<"n", "i", "g", "e", "r", "i", "a">>

\* IsCountry without the test of line 191 (the input names the result's country)
IsCountry_NoAddressMatch(location, result) ==
    LET locationLower == toLowerCase(location)
    IN  \/ (result.class = Some(TextPlace) /\ result.type = TextCountry)
        \/ result.type = TextCountry
        \/ (result.importance < LowImportance
              /\ ~Includes(result.type, TextCity) /\ ~Includes(result.type, TextTown))
        \/ Includes(locationLower, TextNigeria)
        \/ Includes(locationLower, TextCountry)

\* lines 184-192
IsCountry(location, result) ==
    LET locationLower == toLowerCase(location)
        countryCode == OptField(result.address, "country_code")
        country == OptField(result.address, "country")
    IN  \/ (result.class = Some(TextPlace) /\ result.type = TextCountry)
        \/ result.type = TextCountry
        \/ (result.importance < LowImportance
              /\ ~Includes(result.type, TextCity) /\ ~Includes(result.type, TextTown))
        \/ Includes(locationLower, TextNigeria)
        \/ Includes(locationLower, TextCountry)
        \/ (TruthyStr(countryCode) /\ TruthyStr(country)
              /\ Includes(locationLower, toLowerCase(country[1])))

\* geocodeLocation without the NaN test of lines 177-180: a coordinate that does not
\* parse is read as 0
geocodeLocation_NoNaNCheck(location, resp) ==
    IF resp.kind # "ok" THEN None
    ELSE IF ~IsSome(resp.results) \/ Len(resp.results[1]) = 0 THEN None
    ELSE LET result == resp.results[1][1]
             lat == parseFloat(result.lat)
             lon == parseFloat(result.lon)
         IN  Some([lat |-> IF IsSome(lat) THEN lat[1] ELSE 0,
                   lon |-> IF IsSome(lon) THEN lon[1] ELSE 0,
                   isCountry |-> IsCountry(location, result)])

\* lines 138-199: the value geocodeLocation resolves to for the response resp of
\* the geocoding request; None is null
geocodeLocation(location, resp) ==
    IF resp.kind = "network_error" THEN None
    ELSE IF resp.kind = "http_error" THEN None
    ELSE IF resp.kind = "bad_json" THEN None
    ELSE IF ~IsSome(resp.results) \/ Len(resp.results[1]) = 0 THEN None
    ELSE LET result == resp.results[1][1]
             lat == parseFloat(result.lat)
             lon == parseFloat(result.lon)
         IN  IF ~IsSome(lat) \/ ~IsSome(lon) THEN None
             ELSE Some([lat |-> lat[1], lon |-> lon[1],
                        isCountry |-> IsCountry(location, result)])

\* place names the model searches for
PlaceLagos == <<"L", "a", "g", "o", "s">>

PlaceNigeria == <<"N", "i", "g", "e", "r", "i", "a">>

\* candidates a geocoding response may carry
GeocodeCandidates ==
    { [lat |-> <<"6">>, lon |-> <<"3">>, class |-> Some(TextPlace), type |-> TextCity,
       importance |-> 60, address |-> None],
      [lat |-> <<"9">>, lon |-> <<"8">>, class |-> Some(<<"b">>),
       type |-> <<"a", "d", "m", "i", "n">>, importance |-> 80,
       address |-> Some([country |-> Some(PlaceNigeria), country_code |-> Some(<<"n", "g">>)])],
      [lat |-> <<"0">>, lon |-> <<"3">>, class |-> Some(TextPlace), type |-> TextCountry,
       importance |-> 90, address |-> None],
      [lat |-> <<"-", "6">>, lon |-> <<"0">>, class |-> None,
       type |-> <<"v", "i", "l", "l", "a", "g", "e">>, importance |-> 10, address |-> None],
      [lat |-> <<"6">>, lon |-> <<"0">>, class |-> Some(TextPlace),
       type |-> TextTown \o <<"s", "h", "i", "p">>, importance |-> 10, address |-> None],
      [lat |-> <<"x">>, lon |-> <<"3">>, class |-> Some(TextPlace), type |-> TextCity,
       importance |-> 60, address |-> None] }

\* outcomes of the geocoding request
GeocodeResponses ==
    { [kind |-> "network_error"], [kind |-> "http_error"], [kind |-> "bad_json"],
      [kind |-> "ok", results |-> None], [kind |-> "ok", results |-> Some(<<>>)] }
    \cup { [kind |-> "ok", results |-> Some(<<c>>)] : c \in GeocodeCandidates }

(***************************************************************************)
(* Configuration check and error messages (predicthq.ts 332-342, 520-530)  *)
(***************************************************************************)
ConfigTokenMessage ==
    <<"PredictHQ API token is not configured. Please set NEXT_PUBLIC_PREDICTHQ_API_TOKEN in your .env.local file.">>

ConfigBaseMessage ==
    <<"PredictHQ API base URL is not configured. Please set NEXT_PUBLIC_PREDICTHQ_API_BASE in your .env.local file.">>

\* ConfigError with the base-URL check of lines 338-342 and 526-530 left out
ConfigError_TokenOnly(cfg) ==
    IF Len(cfg.token) = 0 THEN Some(ConfigTokenMessage) ELSE None

\* lines 332-342 and 520-530: the message of the error thrown before the try block,
\* None when both the token and the base URL are set
ConfigError(cfg) ==
    IF Len(cfg.token) = 0 THEN Some(ConfigTokenMessage)
    ELSE IF ~TruthyStr(cfg.base) THEN Some(ConfigBaseMessage)
    ELSE None

\* lines 431 and 550
NetworkErrorMessage(resp) ==
    <<"Failed to connect to PredictHQ API: ">> \o resp.message
        \o <<". Please check your internet connection and API configuration.">>

\* lines 436-449 and 554-566: the message built from the error response
ApiErrorMessage(resp) ==
    LET detail == OptField(resp.errorData, "detail")
        message == OptField(resp.errorData, "message")
        error == OptField(resp.errorData, "error")
    IN  IF TruthyStr(detail) THEN <<"PredictHQ API error: ">> \o detail[1]
        ELSE IF TruthyStr(message) THEN <<"PredictHQ API error: ">> \o message[1]
        ELSE IF TruthyStr(error) THEN <<"PredictHQ API error: ">> \o error[1]
        ELSE <<"PredictHQ API error: ">> \o NumToStr(resp.status) \o <<" ">> \o resp.statusText

\* lines 461-467
SearchHttpErrorMessage(resp) ==
    IF resp.status = 401 \/ resp.status = 403
    THEN <<"Authentication failed. Please check your PredictHQ API token. ">>
             \o ApiErrorMessage(resp)
    ELSE IF resp.status = 404
    THEN <<"API endpoint not found. ">> \o ApiErrorMessage(resp)
    ELSE IF resp.status >= 500
    THEN <<"PredictHQ API server error. ">> \o ApiErrorMessage(resp)
    ELSE ApiErrorMessage(resp)

\* the message of the SyntaxError response.json() throws on an unparsable body
JsonErrorMessage == <<"Unexpected token in JSON">>

\* results of the operations: a value, or a thrown error object with its name
\* (its class) and its message
Returned(v) == [ok |-> TRUE, value |-> v, name |-> "", message |-> <<>>]

\* throw new Error(msg)
Thrown(msg) == [ok |-> FALSE, value |-> <<>>, name |-> "Error", message |-> msg]

\* the SyntaxError response.json() throws (lines 472 and 581), rethrown by the
\* catch of lines 480-482 and 598-600
ThrownSyntaxError(msg) ==
    [ok |-> FALSE, value |-> <<>>, name |-> "SyntaxError", message |-> msg]

(***************************************************************************)
(* searchEvents (predicthq.ts 330-483)                                     *)
(***************************************************************************)
\* miles to kilometres, in units of 1e-5 (line 379: 1.60934)
KmPerMileE5 == 160934

\* the default radii of lines 363, 365 (miles) and 379 (kilometres)
CountryRadiusMiles == 300

CityRadiusMiles == 30

DefaultRadiusKm == 50

\* the result limit of line 410
ResultLimit == 50

\* Math.round(miles * 1.60934) for miles >= 0
RoundedKm(miles) == (miles * KmPerMileE5 + 50000) \div 100000

Param(k, v) == [k |-> k, v |-> v]

\* line 354: whether the city is geocoded
NeedsGeocode(f) ==
    ~TruthyNum(f.latitude) /\ ~TruthyNum(f.longitude) /\ TruthyStr(f.city)

\* ResolveLocation without the keyword fallback of lines 367-371
ResolveLocation_NoFallback(f, asked, g) ==
    IF asked /\ IsSome(g)
    THEN [lat |-> Some(g[1].lat), lon |-> Some(g[1].lon),
          radius |-> IF g[1].isCountry
                     THEN OrNum(f.radius, Some(CountryRadiusMiles))
                     ELSE OrNum(f.radius, Some(CityRadiusMiles)),
          params |-> <<>>]
    ELSE [lat |-> f.latitude, lon |-> f.longitude, radius |-> f.radius, params |-> <<>>]

\* lines 349-372: searchLatitude, searchLongitude, searchRadius and the parameters
\* so far, given the geocoder's answer g (None when it was not asked or gave null)
ResolveLocation(f, asked, g) ==
    IF asked /\ IsSome(g)
    THEN [lat |-> Some(g[1].lat), lon |-> Some(g[1].lon),
          radius |-> IF g[1].isCountry
                     THEN OrNum(f.radius, Some(CountryRadiusMiles))
                     ELSE OrNum(f.radius, Some(CityRadiusMiles)),
          params |-> <<>>]
    ELSE [lat |-> f.latitude, lon |-> f.longitude, radius |-> f.radius,
          params |-> IF asked THEN <<Param("q", f.city[1])>> ELSE <<>>]

\* line 379: whether the radius is the caller-unit radius converted to kilometres
RadiusConverted(loc) == TruthyNum(loc.radius)

\* line 379
RadiusKm(loc) ==
    IF TruthyNum(loc.radius) THEN RoundedKm(loc.radius[1]) ELSE DefaultRadiusKm

\* lines 375-381
LocationParams(loc) ==
    IF TruthyNum(loc.lat) /\ TruthyNum(loc.lon)
    THEN <<Param("location_around.origin",
                 NumToStr(loc.lat[1]) \o <<",">> \o NumToStr(loc.lon[1])),
           Param("location_around.radius", NumToStr(RadiusKm(loc)) \o <<"km">>)>>
    ELSE <<>>

\* new Date(s).toISOString(): a date-only text gets the midnight UTC time, a full
\* timestamp is unchanged
toISOString(s) == IF Len(s) = 1 THEN s \o <<"T00:00:00.000Z">> ELSE s

\* new Date().toISOString() at the time of the call
NowIso == <<"2025-01-01", "T12:00:00.000Z">>

\* DateParams without the default of lines 387-389: no lower bound when no start
\* date is given
DateParams_NoDefaultStart(f) ==
    (IF TruthyStr(f.startDate) THEN <<Param("start.gte", toISOString(f.startDate[1]))>>
     ELSE <<>>)
    \o (IF TruthyStr(f.endDate) THEN <<Param("start.lte", toISOString(f.endDate[1]))>> ELSE <<>>)

\* lines 384-393
DateParams(f) ==
    <<Param("start.gte", IF TruthyStr(f.startDate) THEN toISOString(f.startDate[1]) ELSE NowIso)>>
    \o (IF TruthyStr(f.endDate) THEN <<Param("start.lte", toISOString(f.endDate[1]))>> ELSE <<>>)

\* lines 396-404
KeywordParams(f) ==
    (IF TruthyStr(f.query) THEN <<Param("q", f.query[1])>> ELSE <<>>)
    \o (IF TruthyStr(f.category) THEN <<Param("category", f.category[1])>> ELSE <<>>)

\* lines 407-414
FixedParams ==
    <<Param("private", <<"false">>), Param("limit", NumToStr(ResultLimit)),
      Param("sort", <<"-rank">>)>>

\* lines 346-414: the query parameters of the provider request
BuildParams(f, loc) ==
    loc.params \o LocationParams(loc) \o DateParams(f) \o KeywordParams(f) \o FixedParams

\* the values of the parameters named k, in order
ParamValues(params, k) ==
    LET hits == SelectSeq(params, LAMBDA p : p.k = k)
    IN  [i \in 1..Len(hits) |-> hits[i].v]

\* SearchOutcome treating an empty result list as an error instead of lines 475-477
SearchOutcome_ThrowOnEmpty(resp) ==
    IF resp.kind = "network_error" THEN Thrown(NetworkErrorMessage(resp))
    ELSE IF resp.kind = "http" THEN Thrown(SearchHttpErrorMessage(resp))
    ELSE IF ~IsSome(resp.json) THEN ThrownSyntaxError(JsonErrorMessage)
    ELSE IF ~IsSome(resp.json[1].results) \/ Len(resp.json[1].results[1]) = 0
    THEN Thrown(<<"No events found">>)
    ELSE Returned([i \in 1..Len(resp.json[1].results[1]) |->
                      transformEvent(resp.json[1].results[1][i])])

\* SearchOutcome turning a 5xx response into an empty result instead of the throw
\* of line 469
SearchOutcome_SwallowServerError(resp) ==
    IF resp.kind = "network_error" THEN Thrown(NetworkErrorMessage(resp))
    ELSE IF resp.kind = "http" /\ resp.status >= 500 THEN Returned(<<>>)
    ELSE IF resp.kind = "http" THEN Thrown(SearchHttpErrorMessage(resp))
    ELSE IF ~IsSome(resp.json) THEN ThrownSyntaxError(JsonErrorMessage)
    ELSE IF ~IsSome(resp.json[1].results) \/ Len(resp.json[1].results[1]) = 0
    THEN Returned(<<>>)
    ELSE Returned([i \in 1..Len(resp.json[1].results[1]) |->
                      transformEvent(resp.json[1].results[1][i])])

\* lines 416-479: the outcome of searchEvents for the provider's response
SearchOutcome(resp) ==
    IF resp.kind = "network_error" THEN Thrown(NetworkErrorMessage(resp))
    ELSE IF resp.kind = "http" THEN Thrown(SearchHttpErrorMessage(resp))
    ELSE IF ~IsSome(resp.json) THEN ThrownSyntaxError(JsonErrorMessage)
    ELSE IF ~IsSome(resp.json[1].results) \/ Len(resp.json[1].results[1]) = 0
    THEN Returned(<<>>)
    ELSE Returned([i \in 1..Len(resp.json[1].results[1]) |->
                      transformEvent(resp.json[1].results[1][i])])

(***************************************************************************)
(* getEventById (predicthq.ts 518-601)                                     *)
(***************************************************************************)
\* line 573
NotFound404Message(eventId) ==
    <<"Event not found. The event ID \"">> \o eventId
        \o <<"\" may be invalid, the event may no longer be available, or it might be from a different API. Please try searching for events again.">>

\* line 585
NotFoundEmptyMessage(eventId) ==
    <<"Event not found. The event ID \"">> \o eventId
        \o <<"\" may be invalid or the event may no longer be available.">>

\* line 592
NotFoundNoMatchMessage(eventId) ==
    <<"Event not found. The event ID \"">> \o eventId
        \o <<"\" was not found in the API response.">>

\* line 575
AuthFailedMessage == <<"Authentication failed. Please check your PredictHQ API token.">>

\* lines 572-576
GetByIdHttpErrorMessage(eventId, resp) ==
    IF resp.status = 404 THEN NotFound404Message(eventId)
    ELSE IF resp.status = 401 \/ resp.status = 403 THEN AuthFailedMessage
    ELSE ApiErrorMessage(resp)

\* GetByIdOutcome taking the first result without the id check of lines 589-593
GetByIdOutcome_FirstResult(eventId, resp) ==
    IF resp.kind = "network_error" THEN Thrown(NetworkErrorMessage(resp))
    ELSE IF resp.kind = "http" THEN Thrown(GetByIdHttpErrorMessage(eventId, resp))
    ELSE IF ~IsSome(resp.json) THEN ThrownSyntaxError(JsonErrorMessage)
    ELSE IF ~IsSome(resp.json[1].results) \/ Len(resp.json[1].results[1]) = 0
    THEN Thrown(NotFoundEmptyMessage(eventId))
    ELSE Returned(transformEvent(resp.json[1].results[1][1]))

\* lines 537-597: the outcome of getEventById for the provider's response
GetByIdOutcome(eventId, resp) ==
    IF resp.kind = "network_error" THEN Thrown(NetworkErrorMessage(resp))
    ELSE IF resp.kind = "http" THEN Thrown(GetByIdHttpErrorMessage(eventId, resp))
    ELSE IF ~IsSome(resp.json) THEN ThrownSyntaxError(JsonErrorMessage)
    ELSE IF ~IsSome(resp.json[1].results) \/ Len(resp.json[1].results[1]) = 0
    THEN Thrown(NotFoundEmptyMessage(eventId))
    ELSE LET results == resp.json[1].results[1]
             predicthqEvent == Find(results, {e \in Range(results) : e.id = eventId})
         IN  IF ~IsSome(predicthqEvent) THEN Thrown(NotFoundNoMatchMessage(eventId))
             ELSE Returned(transformEvent(predicthqEvent[1]))

(***************************************************************************)
(* Network requests and the responses the model draws from                 *)
(***************************************************************************)
\* lines 145-153
GeocodeRequest(location) ==
    [to |-> "geocoder",
     params |-> <<Param("q", encodeURIComponent(location)), Param("format", <<"json">>),
                  Param("limit", <<"1">>), Param("addressdetails", <<"1">>)>>]

\* lines 419-428
SearchRequest(params) == [to |-> "provider", params |-> params]

\* lines 535-548
GetByIdRequest(eventId) ==
    [to |-> "provider", params |-> <<Param("id", encodeURIComponent(eventId))>>]

\* longest result list of a provider response
MaxResults == 2

\* records a provider response may carry
ResultPool ==
    { [BaseRecord(<<"A">>) EXCEPT !.ticket_url = Some(<<"T">>)],
      [BaseRecord(<<"B">>) EXCEPT
          !.entities = Some(<<[name |-> Some(<<"Hall">>), type |-> "venue",
                               formatted_address |-> Some(FormattedMainSt),
                               url |-> None, website |-> None]>>)] }

StatusText(status) ==
    CASE status = 400 -> <<"Bad Request">>
      [] status = 401 -> <<"Unauthorized">>
      [] status = 403 -> <<"Forbidden">>
      [] status = 404 -> <<"Not Found">>
      [] OTHER -> <<"Internal Server Error">>

ErrorBodies ==
    { None,
      Some([detail |-> Some(<<"quota exceeded">>), message |-> None, error |-> None]) }

\* responses of the provider that are not a parsable 200 body
FailureResponses ==
    { [kind |-> "network_error", message |-> <<"Failed to fetch">>],
      [kind |-> "ok", json |-> None] }
    \cup { [kind |-> "http", status |-> st, statusText |-> StatusText(st), errorData |-> body] :
             st \in {400, 401, 403, 404, 500}, body \in ErrorBodies }

\* responses of the provider
ProviderResponses ==
    FailureResponses
    \cup { [kind |-> "ok", json |-> Some([results |-> None])] }
    \cup { [kind |-> "ok", json |-> Some([results |-> Some(rs)])] :
             rs \in SeqsUpTo(ResultPool, MaxResults) }

\* the module constants the model draws from
Configs ==
    { [token |-> <<"tok">>, base |-> Some(<<"https://api.predicthq.com/v1">>)],
      [token |-> <<>>, base |-> Some(<<"https://api.predicthq.com/v1">>)],
      [token |-> <<"tok">>, base |-> None],
      [token |-> <<"tok">>, base |-> Some(<<>>)],
      [token |-> <<>>, base |-> None] }

\* the filter sets the model draws from
FilterSets ==
    [latitude : {None, Some(0), Some(6)},
     longitude : {None, Some(0), Some(3)},
     radius : {None, Some(0), Some(10)},
     city : {None, Some(PlaceLagos), Some(PlaceNigeria)},
     startDate : {None, Some(<<"2025-06-01">>)},
     endDate : {None, Some(<<"2025-06-02", "T00:00:00.000Z">>)},
     category : {None, Some(<<"concerts">>)},
     query : {None, Some(<<"jazz">>)}]

\* the event ids the model asks for
EventIds == {<<"A">>, <<"B">>, <<"M">>}

(***************************************************************************)
(* Idle values of the parts of the state a specification does not use      *)
(***************************************************************************)
IdleTransform == [rec |-> None, event |-> None]

IdleConfig == [token |-> <<>>, base |-> None]

IdleSearch ==
    [pc |-> "idle", filters |-> None, asked |-> FALSE, geoResponse |-> None,
     geocode |-> None, params |-> <<>>,
     radiusConverted |-> FALSE, response |-> None, result |-> None]

IdleLookup == [pc |-> "idle", eventId |-> <<>>, response |-> None, result |-> None]

IdleBatch == [pc |-> "idle", ids |-> <<>>, next |-> 1, lookups |-> <<>>, result |-> None]

IdlePopular == [pc |-> "idle", city |-> None, lat |-> None, lon |-> None, result |-> None]

\* the browsing contexts of the saved-events service
Contexts == {1, 2}

\* a context's call of the saved-events service: op and eventId are the last call,
\* read is what its getSavedEventIds returned, saved the array it then made of it
\* (after push or filter); pc is "read" between the read and the setItem of the
\* call and "idle" otherwise
IdleContext ==
    [pc |-> "idle", op |-> "none", eventId |-> <<>>, read |-> <<>>, saved |-> <<>>]

IdleContexts == [c \in Contexts |-> IdleContext]

IdleGeocode == [pc |-> "idle", location |-> <<>>, response |-> None, result |-> None]

\* the detail page before it is mounted
IdleDetail ==
    [pc |-> "idle", eventId |-> None, event |-> None, loading |-> TRUE, error |-> None,
     isSaved |-> FALSE]

\* the SearchFilters component as mounted: empty inputs (lines 24-25)
IdleFilters == [searchQuery |-> <<>>, city |-> <<>>]

\* the filters object {} (page.tsx line 26): no own key
NoFilterKeys == [hasKeys |-> FALSE, query |-> None, city |-> None]

\* the discover page before its effects have run (page.tsx lines 22-29)
IdleDash ==
    [pc |-> "unmounted", geo |-> "unasked", filters |-> NoFilterKeys,
     userLocation |-> None, showPopular |-> TRUE, loading |-> TRUE,
     searchLoading |-> FALSE, events |-> <<>>, popularEvents |-> <<>>,
     searches |-> <<>>, loads |-> <<>>, inputs |-> 0]

(***************************************************************************)
(* Specification of transformEvent: the record is drawn from               *)
(* ProviderRecords and Transform applies the function to it.               *)
(***************************************************************************)
TransformInit ==
    /\ tr \in {[rec |-> Some(r), event |-> None] : r \in ProviderRecords}
    /\ config = IdleConfig
    /\ se = IdleSearch
    /\ ge = IdleLookup
    /\ ba = IdleBatch
    /\ requests = <<>>
    /\ po = IdlePopular
    /\ storage = None
    /\ ctx = IdleContexts
    /\ gc = IdleGeocode
    /\ session = {}
    /\ dp = IdleDetail
    /\ sf = IdleFilters
    /\ dash = IdleDash

Transform ==
    /\ IsSome(tr.rec)
    /\ ~IsSome(tr.event)
    /\ tr' = [tr EXCEPT !.event = Some(transformEvent(tr.rec[1]))]
    /\ UNCHANGED <<config, se, ge, ba, requests>>
    /\ UNCHANGED <<po, storage, ctx>>
    /\ UNCHANGED pageVars

TransformNext == Transform

SpecTransform == TransformInit /\ [][TransformNext]_vars

(***************************************************************************)
(* Properties of transformEvent, checked under SpecTransform               *)
(***************************************************************************)
\* the record carries a URL: a non-empty URL field or an entity with one
HasProviderUrl(r) ==
    \/ TruthyStr(r.ticket_url) \/ TruthyStr(r.external_url)
    \/ TruthyStr(r.url) \/ TruthyStr(r.website)
    \/ \E i \in 1..Len(EntityList(r)) :
          TruthyStr(EntityList(r)[i].url) \/ TruthyStr(EntityList(r)[i].website)

\* the city of an Event as text, empty when it has none
CityTextOf(e) ==
    IF IsSome(e.venue) /\ TruthyStr(e.venue[1].city) THEN e.venue[1].city[1] ELSE <<>>

\* C6: the url of every transformed Event is non-empty, and for a record without
\* a provider-supplied URL it is the search-engine URL made of the title and the
\* Event's city.
C6_UrlNeverEmpty ==
    IsSome(tr.event) =>
        /\ Len(tr.event[1].url) > 0
        /\ ~HasProviderUrl(tr.rec[1]) =>
              tr.event[1].url =
                  GoogleSearchPrefix
                      \o encodeURIComponent(tr.rec[1].title \o TicketsText
                                                \o CityTextOf(tr.event[1]))

\* C6 witness: a record whose URL fields are empty or absent got the synthesized
\* URL, which names the city read from the venue's formatted address.
C6_Witness ==
    /\ IsSome(tr.event) /\ ~HasProviderUrl(tr.rec[1])
    /\ tr.rec[1].ticket_url = Some(<<>>)
    /\ CityTextOf(tr.event[1]) = <<"Springfield">>
    /\ Includes(tr.event[1].url, <<"Springfield">>)

\* the record has coordinates: in its first location entry or in its geo field
HasCoordinates(r) ==
    \/ IsSome(r.geo)
    \/ IsSome(r.location) /\ r.location[1] # <<>> /\ IsSome(r.location[1][1].location)

\* the first location entry of the record has an address block
HasAddressBlock(r) ==
    IsSome(r.location) /\ r.location[1] # <<>> /\ IsSome(r.location[1][1].address)

\* the record has an entity of type venue
HasVenueEntity(r) ==
    IsSome(r.entities) /\ \E i \in 1..Len(r.entities[1]) : r.entities[1][i].type = "venue"

\* C15: the Event has a venue exactly when the record has coordinates, an address
\* block or a venue-typed entity.
C15_VenueIffLocationData ==
    IsSome(tr.event) =>
        (IsSome(tr.event[1].venue) <=>
            (HasCoordinates(tr.rec[1]) \/ HasAddressBlock(tr.rec[1])
                \/ HasVenueEntity(tr.rec[1])))

\* C15 witness: a record whose only location datum is a venue-typed entity
\* (without a formatted address) gave an Event with a venue.
C15_Witness ==
    /\ IsSome(tr.event) /\ IsSome(tr.event[1].venue)
    /\ ~HasCoordinates(tr.rec[1]) /\ ~HasAddressBlock(tr.rec[1])
    /\ HasVenueEntity(tr.rec[1])
    /\ \A i \in 1..Len(tr.rec[1].entities[1]) :
          ~IsSome(tr.rec[1].entities[1][i].formatted_address)

\* the locality of the record's address block, None when absent
LocalityOf(r) ==
    IF HasAddressBlock(r) THEN r.location[1][1].address[1].locality ELSE None

\* the entities of the record that carry a non-empty formatted address, in order
EntitiesWithAddress(r) ==
    SelectSeq(EntityList(r), LAMBDA e : TruthyStr(e.formatted_address))

\* the venue-typed entities of the record, in order
VenueEntities(r) == SelectSeq(EntityList(r), LAMBDA e : e.type = "venue")

\* the comma-separated segments of a text, trimmed
Segments(text) ==
    LET split == SplitOn(text, ",", <<>>) IN [i \in 1..Len(split) |-> Trim(split[i])]

UrlSources(r) ==
    <<r.ticket_url, r.external_url, r.url, r.website>>
    \o [i \in 1..(2 * Len(EntityList(r))) |->
          IF i % 2 = 1 THEN EntityList(r)[(i + 1) \div 2].url
          ELSE EntityList(r)[i \div 2].website]

\* C21: the Event's url is the first non-empty source in the priority order
\* ticket URL, external URL, generic URL, website, entities' URLs; a source is
\* used only when every earlier one is absent or empty, and the synthesized
\* search URL exactly when all are.
C21_UrlPriorityOrder ==
    IsSome(tr.event) =>
        LET sources == UrlSources(tr.rec[1])
            present == {i \in 1..Len(sources) : TruthyStr(sources[i])}
        IN  /\ \A i \in present :
                  (\A j \in 1..(i - 1) : j \notin present) => tr.event[1].url = sources[i][1]
            /\ present = {} <=> Head(tr.event[1].url) = Head(GoogleSearchPrefix)

\* C21 witness: the ticket URL is empty, external and generic URL are absent, and
\* both the website and an entity URL are there: the url is the website.
C21_Witness ==
    /\ IsSome(tr.event)
    /\ tr.rec[1].ticket_url = Some(<<>>)
    /\ ~IsSome(tr.rec[1].external_url) /\ ~IsSome(tr.rec[1].url)
    /\ TruthyStr(tr.rec[1].website)
    /\ \E i \in 1..Len(EntityList(tr.rec[1])) : TruthyStr(EntityList(tr.rec[1])[i].url)
    /\ tr.event[1].url = tr.rec[1].website[1]

\* the address block of the record's first location entry, None when absent
AddressBlockOf(r) == IF HasAddressBlock(r) THEN r.location[1][1].address ELSE None

\* the non-empty texts among the optional texts parts, joined by ", "
JoinPresent(parts) ==
    LET present == SelectSeq(parts, LAMBDA part : TruthyStr(part))
    IN  JoinWith([i \in 1..Len(present) |-> present[i][1]], CommaSpace)

\* the steps of the address fallback after the joined parts, for the Event's venue
AddressAfterParts(r, venue, withCountry) ==
    LET block == AddressBlockOf(r)
    IN  IF TruthyStr(OptField(block, "name")) /\ block[1].name[1] # venue.name
        THEN block[1].name[1]
        ELSE IF withCountry /\ TruthyStr(r.country) THEN r.country[1]
        ELSE IF IsSome(venue.latitude)
        THEN ToFixed4(venue.latitude[1]) \o CommaSpace \o ToFixed4(venue.longitude[1])
        ELSE LocationAvailableText

\* C22 (as claimed): venue.address is an entity's formatted address; else the join
\* of the present street, locality, region and country of the address block; else
\* the address name when it differs from the venue name; else the top-level
\* country; else the coordinate string; else the placeholder; and it is never
\* empty.
C22_AddressFallbackOrder ==
    (IsSome(tr.event) /\ IsSome(tr.event[1].venue)) =>
        LET r == tr.rec[1]
            venue == tr.event[1].venue[1]
            block == AddressBlockOf(r)
            joined == JoinPresent(<<OptField(block, "street"), OptField(block, "locality"),
                                    OptField(block, "region"), OptField(block, "country")>>)
        IN  /\ Len(venue.address) > 0
            /\ venue.address =
                  IF EntitiesWithAddress(r) # <<>>
                  THEN EntitiesWithAddress(r)[1].formatted_address[1]
                  ELSE IF joined # <<>> THEN joined
                  ELSE AddressAfterParts(r, venue, TRUE)

\* C22 (amended): venue.address is the formatted address of the first entity that
\* has one; else the join of the present street, locality, region and country,
\* the country being the address block's or, when that is absent, the top-level
\* country; else the address name when it differs from the venue name; else the
\* coordinate string; else the placeholder; and it is never empty.  No separate
\* top-level-country step is ever taken.
C22_AddressOrderCountryInParts ==
    (IsSome(tr.event) /\ IsSome(tr.event[1].venue)) =>
        LET r == tr.rec[1]
            venue == tr.event[1].venue[1]
            block == AddressBlockOf(r)
            joined == JoinPresent(<<OptField(block, "street"), OptField(block, "locality"),
                                    OptField(block, "region"),
                                    OrStr(OptField(block, "country"), r.country)>>)
        IN  /\ Len(venue.address) > 0
            /\ venue.address =
                  IF EntitiesWithAddress(r) # <<>>
                  THEN EntitiesWithAddress(r)[1].formatted_address[1]
                  ELSE IF joined # <<>> THEN joined
                  ELSE AddressAfterParts(r, venue, FALSE)

\* C22 witness: no entity has a formatted address, the address block has only a
\* name, which differs from the venue name, and the record has a top-level
\* country: the address is the country, not the address name.
C22_Witness ==
    /\ IsSome(tr.event) /\ IsSome(tr.event[1].venue)
    /\ EntitiesWithAddress(tr.rec[1]) = <<>>
    /\ TruthyStr(OptField(AddressBlockOf(tr.rec[1]), "name"))
    /\ AddressBlockOf(tr.rec[1])[1].name[1] # tr.event[1].venue[1].name
    /\ ~TruthyStr(AddressBlockOf(tr.rec[1])[1].country)
    /\ TruthyStr(tr.rec[1].country)
    /\ tr.event[1].venue[1].address = tr.rec[1].country[1]

(***************************************************************************)
(* Specification of one call of searchEvents or of getEventById.  Each     *)
(* await of the code ends a step: the call runs to its first request, the  *)
(* geocoder's answer resumes it up to the provider request, the provider's *)
(* response resumes it to its end.                                         *)
(***************************************************************************)
Init ==
    /\ tr = IdleTransform
    /\ config \in Configs
    /\ se = IdleSearch
    /\ ge = IdleLookup
    /\ ba = IdleBatch
    /\ requests = <<>>
    /\ po = IdlePopular
    /\ storage = None
    /\ ctx = IdleContexts
    /\ gc = IdleGeocode
    /\ session = {}
    /\ dp = IdleDetail
    /\ sf = IdleFilters
    /\ dash = IdleDash

\* the state of searchEvents once it has built its query and issued the request
Fetching(f, asked, g) ==
    LET loc == ResolveLocation(f, asked, g)
    IN  [pc |-> "fetching", filters |-> f, asked |-> asked, geoResponse |-> None,
         geocode |-> g,
         params |-> BuildParams(f, loc),
         radiusConverted |-> LocationParams(loc) # <<>> /\ RadiusConverted(loc),
         response |-> None, result |-> None]

\* lines 330-355 and, when the city is not geocoded, on to the fetch of line 419:
\* searchEvents runs from its call to its first await
SearchStart(f) ==
    /\ se.pc = "idle" /\ ge.pc = "idle"
    /\ IF IsSome(ConfigError(config))
       THEN /\ se' = [IdleSearch EXCEPT !.pc = "done", !.filters = f,
                                        !.result = Some(Thrown(ConfigError(config)[1]))]
            /\ UNCHANGED requests
       ELSE IF NeedsGeocode(f)
       THEN /\ se' = [IdleSearch EXCEPT !.pc = "geocoding", !.filters = f, !.asked = TRUE]
            /\ requests' = Append(requests, GeocodeRequest(f.city[1]))
       ELSE /\ se' = Fetching(f, FALSE, None)
            /\ requests' = Append(requests, SearchRequest(Fetching(f, FALSE, None).params))

\* a caller other than getPopularEvents calls searchEvents
SearchCall(f) ==
    /\ po.pc = "idle"
    /\ SearchStart(f)
    /\ UNCHANGED <<tr, config, ge, ba>>
    /\ UNCHANGED <<po, storage, ctx>>
    /\ UNCHANGED pageVars

\* lines 355-428: geocodeLocation resolves and searchEvents goes on to its fetch
GeocodeReturn(resp) ==
    /\ se.pc = "geocoding"
    /\ LET g == geocodeLocation(se.filters.city[1], resp)
       IN  /\ se' = [Fetching(se.filters, TRUE, g) EXCEPT !.geoResponse = Some(resp)]
           /\ requests' = Append(requests, SearchRequest(Fetching(se.filters, TRUE, g).params))
    /\ UNCHANGED <<tr, config, ge, ba>>
    /\ UNCHANGED <<po, storage, ctx>>
    /\ UNCHANGED pageVars

\* lines 429-482: the provider's response ends the call
SearchRespond(resp) ==
    /\ se.pc = "fetching"
    /\ se' = [se EXCEPT !.pc = "done", !.response = Some(resp),
                        !.result = Some(SearchOutcome(resp))]
    /\ UNCHANGED <<tr, config, ge, ba, requests>>
    /\ UNCHANGED <<po, storage, ctx>>
    /\ UNCHANGED pageVars

\* lines 518-548
GetByIdCall(eventId) ==
    /\ se.pc = "idle" /\ ge.pc = "idle"
    /\ IF IsSome(ConfigError(config))
       THEN /\ ge' = [pc |-> "done", eventId |-> eventId, response |-> None,
                      result |-> Some(Thrown(ConfigError(config)[1]))]
            /\ UNCHANGED requests
       ELSE /\ ge' = [pc |-> "fetching", eventId |-> eventId, response |-> None,
                      result |-> None]
            /\ requests' = Append(requests, GetByIdRequest(eventId))
    /\ UNCHANGED <<tr, config, se, ba>>
    /\ UNCHANGED <<po, storage, ctx>>
    /\ UNCHANGED pageVars

\* lines 549-600
GetByIdRespond(resp) ==
    /\ ge.pc = "fetching"
    /\ ge' = [ge EXCEPT !.pc = "done", !.response = Some(resp),
                        !.result = Some(GetByIdOutcome(ge.eventId, resp))]
    /\ UNCHANGED <<tr, config, se, ba, requests>>
    /\ UNCHANGED <<po, storage, ctx>>
    /\ UNCHANGED pageVars

Next ==
    \/ \E f \in FilterSets : SearchCall(f)
    \/ \E resp \in GeocodeResponses : GeocodeReturn(resp)
    \/ \E resp \in ProviderResponses : SearchRespond(resp)
    \/ \E eventId \in EventIds : GetByIdCall(eventId)
    \/ \E resp \in ProviderResponses : GetByIdRespond(resp)

Spec == Init /\ [][Next]_vars

(***************************************************************************)
(* getEventsByIds (predicthq.ts 610-626)                                   *)
(*                                                                         *)
(* eventIds.map runs synchronously: it calls getEventById for each id in   *)
(* turn, and each call runs to its first await (the configuration error or *)
(* the fetch).  No continuation of a getEventById call and no catch        *)
(* handler can run before the synchronous part has ended and               *)
(* getEventsByIds waits at line 620.  A lookup is                          *)
(*   "notCalled"  getEventById has not been called for it yet,             *)
(*   "inFlight"   its request is issued and unanswered,                    *)
(*   "rejected"   getEventById threw and the catch handler has not run,    *)
(*   "settled"    the promise of line 613-618 is resolved, with the Event  *)
(*                or with null (value None).                               *)
(* outcome records what getEventById returned or threw, and rank the       *)
(* position of the lookup among the resolved promises, in the order in     *)
(* which they were resolved (0 while unresolved).                          *)
(***************************************************************************)
\* longest id list of a batch
MaxIds == 2

\* the ids of a batch
BatchIds == {<<"A">>, <<"B">>}

\* the provider's responses to the lookups of a batch
BatchResponses ==
    { [kind |-> "network_error", message |-> <<"Failed to fetch">>],
      [kind |-> "http", status |-> 404, statusText |-> StatusText(404), errorData |-> None],
      [kind |-> "http", status |-> 401, statusText |-> StatusText(401), errorData |-> None],
      [kind |-> "ok", json |-> Some([results |-> Some(<<>>)])] }
    \cup { [kind |-> "ok", json |-> Some([results |-> Some(<<r>>)])] : r \in ResultPool }

NotCalled == [pc |-> "notCalled", outcome |-> None, value |-> None, rank |-> 0]

\* the rank of the promise that is resolved next
NextRank(lookups) == 1 + Cardinality({i \in 1..Len(lookups) : lookups[i].pc = "settled"})

\* getEventsByIds collecting the Events in the order in which the lookups completed
BatchResult_CompletionOrder(lookups) ==
    LET byRank == [r \in 1..Len(lookups) |->
                      lookups[CHOOSE i \in 1..Len(lookups) : lookups[i].rank = r]]
        kept == SelectSeq(byRank, LAMBDA l : IsSome(l.value))
    IN  [i \in 1..Len(kept) |-> kept[i].value[1]]

\* getEventsByIds in which one rejected lookup empties the whole result
BatchResult_AllOrNothing(lookups) ==
    IF \E i \in 1..Len(lookups) : ~IsSome(lookups[i].value) THEN <<>>
    ELSE [i \in 1..Len(lookups) |-> lookups[i].value[1]]

\* line 622: the resolved values that are not null, in order
BatchResult(lookups) ==
    LET kept == SelectSeq(lookups, LAMBDA l : IsSome(l.value))
    IN  [i \in 1..Len(kept) |-> kept[i].value[1]]

\* getEventsByIds in which a failure shared by every lookup is thrown to the caller
BatchOutcome_SharedFailureThrown(lookups) ==
    IF /\ lookups # <<>>
       /\ \A i \in 1..Len(lookups) : ~lookups[i].outcome[1].ok
       /\ \A i \in 1..Len(lookups) : lookups[i].outcome[1].message = lookups[1].outcome[1].message
    THEN Thrown(lookups[1].outcome[1].message)
    ELSE Returned(BatchResult(lookups))

\* lines 611-625: Promise.all cannot reject, since every promise of the list has
\* its catch handler; the function returns the filtered list
BatchOutcome(lookups) == Returned(BatchResult(lookups))

\* a join that ends with the first resolved lookup (Promise.race for Promise.all)
JoinComplete_First(lookups) ==
    lookups = <<>> \/ \E i \in 1..Len(lookups) : lookups[i].pc = "settled"

\* line 620: Promise.all resolves once every promise of the list is resolved
JoinComplete(lookups) == \A i \in 1..Len(lookups) : lookups[i].pc = "settled"

BatchInit ==
    /\ tr = IdleTransform
    /\ config \in Configs
    /\ se = IdleSearch
    /\ ge = IdleLookup
    /\ ba = IdleBatch
    /\ requests = <<>>
    /\ po = IdlePopular
    /\ storage = None
    /\ ctx = IdleContexts
    /\ gc = IdleGeocode
    /\ session = {}
    /\ dp = IdleDetail
    /\ sf = IdleFilters
    /\ dash = IdleDash

\* line 610: the call
BatchCall(ids) ==
    /\ ba.pc = "idle"
    /\ ba' = [pc |-> "mapping", ids |-> ids, next |-> 1,
              lookups |-> [i \in 1..Len(ids) |-> NotCalled], result |-> None]
    /\ UNCHANGED <<tr, config, se, ge, requests>>
    /\ UNCHANGED <<po, storage, ctx>>
    /\ UNCHANGED pageVars

\* lines 613-614: map calls getEventById for the next id, which throws the
\* configuration error (lines 520-530) or issues its request (line 539)
BatchMapStep ==
    /\ ba.pc = "mapping" /\ ba.next <= Len(ba.ids)
    /\ IF IsSome(ConfigError(config))
       THEN /\ ba' = [ba EXCEPT !.next = @ + 1,
                        !.lookups[ba.next] =
                            [pc |-> "rejected",
                             outcome |-> Some(Thrown(ConfigError(config)[1])),
                             value |-> None, rank |-> 0]]
            /\ UNCHANGED requests
       ELSE /\ ba' = [ba EXCEPT !.next = @ + 1, !.lookups[ba.next].pc = "inFlight"]
            /\ requests' = Append(requests, GetByIdRequest(ba.ids[ba.next]))
    /\ UNCHANGED <<tr, config, se, ge>>
    /\ UNCHANGED <<po, storage, ctx>>
    /\ UNCHANGED pageVars

\* line 620: map has ended; getEventsByIds awaits Promise.all
BatchAwait ==
    /\ ba.pc = "mapping" /\ ba.next > Len(ba.ids)
    /\ ba' = [ba EXCEPT !.pc = "awaiting"]
    /\ UNCHANGED <<tr, config, se, ge, requests>>
    /\ UNCHANGED <<po, storage, ctx>>
    /\ UNCHANGED pageVars

\* lines 549-600 for lookup i: the provider's response resumes getEventById
LookupRespond(i, resp) ==
    /\ ba.pc = "awaiting" /\ ba.lookups[i].pc = "inFlight"
    /\ LET outcome == GetByIdOutcome(ba.ids[i], resp)
       IN  ba' = [ba EXCEPT !.lookups[i] =
                    IF outcome.ok
                    THEN [pc |-> "settled", outcome |-> Some(outcome),
                          value |-> Some(outcome.value), rank |-> NextRank(ba.lookups)]
                    ELSE [pc |-> "rejected", outcome |-> Some(outcome), value |-> None,
                          rank |-> 0]]
    /\ UNCHANGED <<tr, config, se, ge, requests>>
    /\ UNCHANGED <<po, storage, ctx>>
    /\ UNCHANGED pageVars

\* lines 614-617: the catch handler of lookup i resolves its promise with null
LookupCatch(i) ==
    /\ ba.pc = "awaiting" /\ ba.lookups[i].pc = "rejected"
    /\ ba' = [ba EXCEPT !.lookups[i].pc = "settled", !.lookups[i].value = None,
                        !.lookups[i].rank = NextRank(ba.lookups)]
    /\ UNCHANGED <<tr, config, se, ge, requests>>
    /\ UNCHANGED <<po, storage, ctx>>
    /\ UNCHANGED pageVars

\* lines 620-622: Promise.all has resolved; the non-null values are returned
BatchReturn ==
    /\ ba.pc = "awaiting" /\ JoinComplete(ba.lookups)
    /\ ba' = [ba EXCEPT !.pc = "done", !.result = Some(BatchOutcome(ba.lookups))]
    /\ UNCHANGED <<tr, config, se, ge, requests>>
    /\ UNCHANGED <<po, storage, ctx>>
    /\ UNCHANGED pageVars

BatchNext ==
    \/ \E ids \in SeqsUpTo(BatchIds, MaxIds) : BatchCall(ids)
    \/ BatchMapStep
    \/ BatchAwait
    \/ \E i \in 1..Len(ba.lookups) : \E resp \in BatchResponses : LookupRespond(i, resp)
    \/ \E i \in 1..Len(ba.lookups) : LookupCatch(i)
    \/ BatchReturn

SpecBatch == BatchInit /\ [][BatchNext]_vars

(***************************************************************************)
(* Properties of getEventsByIds, checked under SpecBatch                   *)
(***************************************************************************)
\* the token or the base URL is absent
ConfigMissing == Len(config.token) = 0 \/ ~TruthyStr(config.base)

\* the lookups of the batch whose getEventById call returned an Event
Succeeded == SelectSeq(ba.lookups, LAMBDA l : IsSome(l.outcome) /\ l.outcome[1].ok)

\* C1: getEventsByIds does not throw and returns exactly the Events of the ids
\* whose lookup succeeded, in the order of the ids.
C1_BatchFailureIsolation ==
    ba.pc = "done" =>
        /\ ba.result[1].ok
        /\ ba.result[1].value = [i \in 1..Len(Succeeded) |-> Succeeded[i].outcome[1].value]
        /\ \A i \in 1..Len(ba.lookups) : IsSome(ba.lookups[i].outcome)

\* C1 witness: the batch [A, B] in which A was found and B failed returned the
\* one Event A.
C1_Witness ==
    /\ ba.pc = "done" /\ ba.ids = <<<<"A">>, <<"B">>>>
    /\ ba.lookups[1].outcome[1].ok /\ ~ba.lookups[2].outcome[1].ok
    /\ Len(ba.result[1].value) = 1 /\ ba.result[1].value[1].id = <<"A">>

\* lookup l has been resumed after its call: its response was handled or its
\* catch handler ran
Resumed(l) == l.pc = "settled" \/ (l.pc = "rejected" /\ ~ConfigMissing)

\* the number of requests the batch has to issue
RequestsDue == IF IsSome(ConfigError(config)) THEN 0 ELSE Len(ba.ids)

\* C2: no response of a lookup is handled before getEventById has been called
\* for every id (all requests are issued first), and getEventsByIds returns only
\* when every lookup has completed, by an Event or by a failure.
C2_BatchParallelThenJoin ==
    /\ (\E i \in 1..Len(ba.lookups) : Resumed(ba.lookups[i]))
       => /\ \A j \in 1..Len(ba.lookups) : ba.lookups[j].pc # "notCalled"
          /\ Len(requests) = RequestsDue
    /\ ba.pc = "awaiting" => Len(requests) = RequestsDue
    /\ ba.pc = "done" =>
          \A i \in 1..Len(ba.lookups) :
              ba.lookups[i].pc = "settled" /\ IsSome(ba.lookups[i].outcome)

\* C2 witness: two requests are in flight at once while the batch waits, and
\* the batch has not returned.
C2_Witness ==
    /\ ba.pc = "awaiting" /\ Len(ba.lookups) >= 2
    /\ \A i \in 1..Len(ba.lookups) : ba.lookups[i].pc = "inFlight"

\* the positions of the lookups that resolved with an Event, in increasing order
KeptPositions ==
    SelectSeq([i \in 1..Len(ba.lookups) |-> i], LAMBDA i : IsSome(ba.lookups[i].value))

\* C26: the returned Events are in the order of their ids in the input list,
\* whatever the order in which the lookups completed: the k-th Event is the one
\* of the k-th id whose lookup was not dropped.
C26_BatchKeepsInputOrder ==
    ba.pc = "done" =>
        /\ Len(ba.result[1].value) = Len(KeptPositions)
        /\ \A k \in 1..Len(KeptPositions) :
              /\ ba.result[1].value[k] = ba.lookups[KeptPositions[k]].value[1]
              /\ ba.result[1].value[k].id = ba.ids[KeptPositions[k]]

\* C26 witness: in the batch [A, B] the lookup of B completed before the lookup
\* of A, and the batch returned [A, B].
C26_Witness ==
    /\ ba.pc = "done" /\ ba.ids = <<<<"A">>, <<"B">>>>
    /\ ba.lookups[2].rank < ba.lookups[1].rank
    /\ Len(ba.result[1].value) = 2
    /\ ba.result[1].value[1].id = <<"A">> /\ ba.result[1].value[2].id = <<"B">>

\* every lookup of the batch failed, all for the one cause named by its message
AllFailedWith(msg) ==
    /\ ba.lookups # <<>>
    /\ \A i \in 1..Len(ba.lookups) :
          /\ IsSome(ba.lookups[i].outcome)
          /\ ~ba.lookups[i].outcome[1].ok
          /\ ba.lookups[i].outcome[1].message = msg

\* the failures that do not depend on the id: missing configuration, transport
\* failure, authentication failure
SharedCauseMessages ==
    {ConfigTokenMessage, ConfigBaseMessage, AuthFailedMessage}
    \cup {NetworkErrorMessage(resp) : resp \in {r \in BatchResponses : r.kind = "network_error"}}

\* C27: getEventsByIds never throws; when every lookup failed for one cause that
\* does not depend on the id, it returns the empty sequence, the very value it
\* returns when every id is unknown to the provider.
C27_BatchHidesSharedFailure ==
    ba.pc = "done" =>
        /\ ba.result[1].ok
        /\ (\E msg \in SharedCauseMessages : AllFailedWith(msg))
              => ba.result[1] = Returned(<<>>)
        /\ (\A i \in 1..Len(ba.lookups) :
                ~ba.lookups[i].outcome[1].ok
                /\ ba.lookups[i].outcome[1].message = NotFound404Message(ba.ids[i]))
              => ba.result[1] = Returned(<<>>)

\* C27 witness: both lookups of a batch of two failed the authentication, and
\* the batch returned the empty sequence.
C27_Witness ==
    /\ ba.pc = "done" /\ Len(ba.ids) = 2
    /\ AllFailedWith(AuthFailedMessage)
    /\ ba.result[1] = Returned(<<>>)

(***************************************************************************)
(* Properties of searchEvents and getEventById, checked under Spec         *)
(***************************************************************************)
IsConfigurationMessage(msg) == msg \in {ConfigTokenMessage, ConfigBaseMessage}

IsNetworkMessage(msg) == msg # <<>> /\ Head(msg) = "Failed to connect to PredictHQ API: "

IsNotFoundMessage(msg) == msg # <<>> /\ Head(msg) = "Event not found. The event ID \""

\* searchEvents has built its query and issued the provider request
QueryEmitted == se.pc \in {"fetching", "done"} /\ se.params # <<>>

OriginValues == ParamValues(se.params, "location_around.origin")

RadiusValues == ParamValues(se.params, "location_around.radius")

KmText(km) == NumToStr(km) \o <<"km">>

OriginText(lat, lon) == NumToStr(lat) \o <<",">> \o NumToStr(lon)

\* C3: with the token or the base URL absent, searchEvents and getEventById end
\* with the configuration error, no request (provider or geocoder) has been
\* issued, and the error is not the network-failure error.
C3_ConfigErrorBeforeAnyRequest ==
    ConfigMissing =>
        /\ requests = <<>>
        /\ se.pc # "idle" =>
              /\ se.pc = "done" /\ ~se.result[1].ok
              /\ IsConfigurationMessage(se.result[1].message)
              /\ ~IsNetworkMessage(se.result[1].message)
        /\ ge.pc # "idle" =>
              /\ ge.pc = "done" /\ ~ge.result[1].ok
              /\ IsConfigurationMessage(ge.result[1].message)
              /\ ~IsNetworkMessage(ge.result[1].message)

\* C3 witness: a search with a city and no coordinates (which would be geocoded)
\* has ended while the base URL is absent and the token is set.
C3_Witness ==
    /\ Len(config.token) > 0 /\ ~TruthyStr(config.base)
    /\ se.pc = "done" /\ NeedsGeocode(se.filters)

\* the result list of a parsed 200 response, empty when the field is absent
ResultsOf(resp) ==
    IF IsSome(resp.json[1].results) THEN resp.json[1].results[1] ELSE <<>>

ParsedOk(resp) == resp.kind = "ok" /\ IsSome(resp.json)

\* C4: when the provider's result set is empty or holds no record with the
\* requested id, getEventById fails with a not-found error whose message contains
\* the id; when it succeeds, the Event it returns has the requested id.
C4_GetByIdNotFoundOrMatching ==
    (ge.pc = "done" /\ IsSome(ge.response)) =>
        /\ (ParsedOk(ge.response[1])
              /\ \A i \in 1..Len(ResultsOf(ge.response[1])) :
                    ResultsOf(ge.response[1])[i].id # ge.eventId)
           => /\ ~ge.result[1].ok
              /\ IsNotFoundMessage(ge.result[1].message)
              /\ Includes(ge.result[1].message, ge.eventId)
        /\ ge.result[1].ok =>
              /\ ge.result[1].value.id = ge.eventId
              /\ \E i \in 1..Len(ResultsOf(ge.response[1])) :
                    ge.result[1].value = transformEvent(ResultsOf(ge.response[1])[i])

\* C4 witness: a non-empty result set without the requested id was answered with
\* an error.
C4_Witness ==
    /\ ge.pc = "done" /\ IsSome(ge.response) /\ ParsedOk(ge.response[1])
    /\ Len(ResultsOf(ge.response[1])) > 0
    /\ \A i \in 1..Len(ResultsOf(ge.response[1])) :
          ResultsOf(ge.response[1])[i].id # ge.eventId
    /\ ~ge.result[1].ok

\* C5: on a parsed response searchEvents returns one Event per provider record,
\* the i-th being the transform of the i-th record, and the empty sequence (no
\* error) when there are no records.
C5_SearchPreservesProviderOrder ==
    (se.pc = "done" /\ IsSome(se.response) /\ ParsedOk(se.response[1])) =>
        /\ se.result[1].ok
        /\ Len(se.result[1].value) = Len(ResultsOf(se.response[1]))
        /\ \A i \in 1..Len(ResultsOf(se.response[1])) :
              /\ se.result[1].value[i] = transformEvent(ResultsOf(se.response[1])[i])
              /\ se.result[1].value[i].id = ResultsOf(se.response[1])[i].id

\* C5 witness: a search returned two events with different ids.
C5_Witness ==
    /\ se.pc = "done" /\ se.result[1].ok /\ Len(se.result[1].value) = 2
    /\ se.result[1].value[1].id # se.result[1].value[2].id

\* both coordinates are given by the caller
ExplicitCoordinates(f) == IsSome(f.latitude) /\ IsSome(f.longitude)

\* C7 (as claimed): for a filter set with explicit coordinates and a (non-zero)
\* radius the emitted radius is round(miles * 1.60934) km of the caller's radius,
\* and a radius is emitted only through that conversion.
C7_RadiusIsConvertedMiles ==
    (QueryEmitted /\ ExplicitCoordinates(se.filters)) =>
        /\ TruthyNum(se.filters.radius) =>
              RadiusValues = <<KmText(RoundedKm(se.filters.radius[1]))>>
        /\ RadiusValues # <<>> => se.radiusConverted

\* C8 (as claimed): the geocoder is invoked iff there is a city and no explicit
\* coordinates; with both coordinates given (0 included) the origin emitted is the
\* given pair and the geocoder is not invoked.  Filter sets with exactly one
\* coordinate are left out.
C8_CoordinatesTakePrecedence ==
    QueryEmitted =>
        /\ ExplicitCoordinates(se.filters) =>
              /\ ~se.asked
              /\ OriginValues =
                   <<OriginText(se.filters.latitude[1], se.filters.longitude[1])>>
        /\ (~IsSome(se.filters.latitude) /\ ~IsSome(se.filters.longitude)) =>
              (se.asked <=> TruthyStr(se.filters.city))

\* C9 (as claimed): after a successful geocoding the query uses the geocoded
\* coordinates, with the caller's radius converted when one was given and
\* otherwise 483 km for a country-scale and 48 km for a city-scale result.
C9_GeocodedOriginAndRadius ==
    (QueryEmitted /\ se.asked /\ IsSome(se.geocode)) =>
        /\ OriginValues = <<OriginText(se.geocode[1].lat, se.geocode[1].lon)>>
        /\ RadiusValues =
             <<KmText(IF TruthyNum(se.filters.radius) THEN RoundedKm(se.filters.radius[1])
                      ELSE IF se.geocode[1].isCountry THEN 483 ELSE 48)>>

\* C10: when the geocoding of the city fails, the provider request is still
\* issued, its query has the city as a free-text term and no location origin or
\* radius, and the call fails only if the provider request does.
C10_GeocodeFailureFallsBackToKeyword ==
    (se.pc \in {"fetching", "done"} /\ se.asked /\ ~IsSome(se.geocode)) =>
        /\ Len(requests) = 2
        /\ requests[2] = SearchRequest(se.params)
        /\ \E i \in 1..Len(se.params) :
              se.params[i].k = "q" /\ se.params[i].v = se.filters.city[1]
        /\ OriginValues = <<>>
        /\ RadiusValues = <<>>
        /\ (se.pc = "done" /\ ParsedOk(se.response[1])) => se.result[1].ok

\* C10 witness: a search whose geocoding failed has returned events.
C10_Witness ==
    /\ se.pc = "done" /\ se.asked /\ ~IsSome(se.geocode)
    /\ se.result[1].ok /\ Len(se.result[1].value) > 0

(***************************************************************************)
(* Properties of geocodeLocation, checked under Spec through the searches  *)
(* that geocode their city                                                 *)
(***************************************************************************)
\* the text starts as a decimal number: an optional sign, then a digit
NumericText(s) ==
    /\ s # <<>>
    /\ \/ IsDigit(s[1])
       \/ (s[1] = "-" /\ Len(s) > 1 /\ IsDigit(s[2]))

\* the geocoding response carries no usable first candidate: the request failed,
\* the status was not OK, the body did not parse, the result array is absent or
\* empty, or a coordinate of the first candidate is not numeric
GeocodeFailed(resp) ==
    \/ resp.kind \in {"network_error", "http_error", "bad_json"}
    \/ ~IsSome(resp.results)
    \/ resp.results[1] = <<>>
    \/ ~NumericText(resp.results[1][1].lat)
    \/ ~NumericText(resp.results[1][1].lon)

\* C11: whatever the geocoding request's outcome, geocodeLocation returns to
\* searchEvents (which goes on to its one provider request, no error escaping):
\* null for a transport failure, a non-OK status, an unparsable body, an empty
\* result array and a non-numeric coordinate; the first candidate's coordinates
\* with the place-kind flag exactly when that candidate's coordinates are numeric.
C11_GeocoderNeverThrows ==
    (se.asked /\ IsSome(se.geoResponse)) =>
        /\ se.pc \in {"fetching", "done"}
        /\ se.pc = "fetching" => ~IsSome(se.result)
        /\ Len(requests) = 2 /\ requests[2] = SearchRequest(se.params)
        /\ GeocodeFailed(se.geoResponse[1]) => se.geocode = None
        /\ ~GeocodeFailed(se.geoResponse[1]) =>
              /\ IsSome(se.geocode)
              /\ NumToStr(se.geocode[1].lat) = se.geoResponse[1].results[1][1].lat
              /\ NumToStr(se.geocode[1].lon) = se.geoResponse[1].results[1][1].lon
              /\ se.geocode[1].isCountry \in BOOLEAN

\* C11 witness: the first candidate's latitude was not numeric, the geocoder gave
\* null, and the search went on and returned.
C11_Witness ==
    /\ se.pc = "done" /\ se.asked /\ IsSome(se.geoResponse)
    /\ se.geoResponse[1].kind = "ok" /\ IsSome(se.geoResponse[1].results)
    /\ Len(se.geoResponse[1].results[1]) = 1
    /\ ~NumericText(se.geoResponse[1].results[1][1].lat)
    /\ se.geocode = None /\ se.result[1].ok

(***************************************************************************)
(* Error kinds of searchEvents and getEventById, checked under Spec        *)
(***************************************************************************)
\* the kind the claimed classification gives to the cause of a failure: the
\* configuration when it is incomplete, else the provider's response; "unlisted"
\* for a cause the classification does not name (a 4xx status other than 401,
\* 403 and 404)
CauseKind(resp) ==
    IF ConfigMissing THEN "configuration"
    ELSE IF ~IsSome(resp) THEN "unlisted"
    ELSE IF resp[1].kind = "network_error" THEN "network"
    ELSE IF resp[1].kind = "http"
    THEN (IF resp[1].status \in {401, 403} THEN "authentication"
          ELSE IF resp[1].status = 404 THEN "not-found"
          ELSE IF resp[1].status >= 500 THEN "server"
          ELSE "unlisted")
    ELSE IF ~IsSome(resp[1].json) THEN "malformed-response"
    ELSE "not-found"

\* the kind that can be read off a thrown error: every error is a plain Error (or
\* the parser's SyntaxError), so the kind is taken from the error's name and, in
\* favour of the code, from the fixed text its message starts with
ErrorKind(err) ==
    IF err.name = "SyntaxError" THEN "malformed-response"
    ELSE IF IsConfigurationMessage(err.message) THEN "configuration"
    ELSE IF IsNetworkMessage(err.message) THEN "network"
    ELSE IF Head(err.message) \in
              {"Authentication failed. Please check your PredictHQ API token. ",
               "Authentication failed. Please check your PredictHQ API token."}
    THEN "authentication"
    ELSE IF IsNotFoundMessage(err.message) \/ Head(err.message) = "API endpoint not found. "
    THEN "not-found"
    ELSE IF Head(err.message) = "PredictHQ API server error. " THEN "server"
    ELSE "unclassified"

\* C12 (as claimed): every failure of searchEvents and of getEventById whose cause
\* is one the classification names carries the kind of that cause: configuration,
\* network, authentication, not-found, server or malformed-response, the same in
\* both operations.
C12_FailureKindByCause ==
    /\ (se.pc = "done" /\ ~se.result[1].ok /\ CauseKind(se.response) # "unlisted")
          => ErrorKind(se.result[1]) = CauseKind(se.response)
    /\ (ge.pc = "done" /\ ~ge.result[1].ok /\ CauseKind(ge.response) # "unlisted")
          => ErrorKind(ge.result[1]) = CauseKind(ge.response)

\* the requests issued so far to the service named to
RequestsTo(to) == SelectSeq(requests, LAMBDA r : r.to = to)

\* the response is a network, authentication, not-found or server failure
ProviderFailure(resp) ==
    \/ resp.kind = "network_error"
    \/ resp.kind = "http" /\ (resp.status \in {401, 403, 404} \/ resp.status >= 500)

\* C13: one invocation of searchEvents or getEventById issues at most one provider
\* request and at most one geocoding request, and a network, authentication,
\* not-found or server failure of the provider request ends the invocation with an
\* error, the request not being issued again.
C13_NoRetry ==
    /\ Len(RequestsTo("provider")) <= 1
    /\ Len(RequestsTo("geocoder")) <= 1
    /\ (se.pc = "done" /\ IsSome(se.response) /\ ProviderFailure(se.response[1]))
          => ~se.result[1].ok /\ Len(se.result[1].message) > 0
    /\ (ge.pc = "done" /\ IsSome(ge.response) /\ ProviderFailure(ge.response[1]))
          => ~ge.result[1].ok /\ Len(ge.result[1].message) > 0

\* C13 witness: a search that geocoded its city got a 500 from the provider and
\* ended with an error after exactly one geocoding and one provider request.
C13_Witness ==
    /\ se.pc = "done" /\ se.asked /\ IsSome(se.response)
    /\ se.response[1].kind = "http" /\ se.response[1].status = 500
    /\ ~se.result[1].ok
    /\ Len(RequestsTo("provider")) = 1 /\ Len(RequestsTo("geocoder")) = 1

\* C19: every query sent to the provider has private=false, limit=50 and
\* sort=-rank, exactly one lower bound on the start (the start date given, else
\* the time of the call) and an upper bound exactly when an end date was given.
C19_FixedAndDateParams ==
    QueryEmitted =>
        /\ ParamValues(se.params, "private") = <<<<"false">>>>
        /\ ParamValues(se.params, "limit") = <<<<"5", "0">>>>
        /\ ParamValues(se.params, "sort") = <<<<"-rank">>>>
        /\ Len(ParamValues(se.params, "start.gte")) = 1
        /\ IF TruthyStr(se.filters.startDate)
           THEN Head(ParamValues(se.params, "start.gte")[1]) = Head(se.filters.startDate[1])
           ELSE ParamValues(se.params, "start.gte")[1] = NowIso
        /\ IF TruthyStr(se.filters.endDate)
           THEN /\ Len(ParamValues(se.params, "start.lte")) = 1
                /\ Head(ParamValues(se.params, "start.lte")[1]) = Head(se.filters.endDate[1])
           ELSE ParamValues(se.params, "start.lte") = <<>>
        /\ requests[Len(requests)] = SearchRequest(se.params)

\* C19 witness: a query went out for a filter set with an end date and no start
\* date; its lower bound is the time of the call.
C19_Witness ==
    /\ QueryEmitted
    /\ ~IsSome(se.filters.startDate) /\ IsSome(se.filters.endDate)
    /\ ParamValues(se.params, "start.gte") = <<NowIso>>
    /\ Len(ParamValues(se.params, "start.lte")) = 1

\* C20 (as claimed): for explicit (non-zero) coordinates and no radius the query
\* carries the default radius of 25 miles converted to kilometres, 40km.
C20_DefaultRadius25Miles ==
    (QueryEmitted /\ TruthyNum(se.filters.latitude) /\ TruthyNum(se.filters.longitude)
        /\ ~IsSome(se.filters.radius))
    => RadiusValues = <<KmText(RoundedKm(25))>>

(***************************************************************************)
(* getPopularEvents (predicthq.ts 491-510)                                 *)
(*                                                                         *)
(* The call builds its filter set and runs searchEvents (SearchStart,      *)
(* GeocodeReturn, SearchRespond); when searchEvents has ended,             *)
(* PopularReturn keeps the first events or passes the error on.            *)
(***************************************************************************)
\* line 509: the number of events kept
PopularLimit == 12

\* line 497: the radius, in miles, of a popular search around coordinates
PopularRadiusMiles == 50

\* line 502: the default city
DefaultCity == <<"N", "e", "w", " ", "Y", "o", "r", "k">>

\* line 492: const filters: EventFilters = {}
EmptyFilters ==
    [latitude |-> None, longitude |-> None, radius |-> None, city |-> None,
     startDate |-> None, endDate |-> None, category |-> None, query |-> None]

\* lines 492-503
PopularFilters(city, lat, lon) ==
    IF TruthyNum(lat) /\ TruthyNum(lon)
    THEN [EmptyFilters EXCEPT !.latitude = lat, !.longitude = lon,
                              !.radius = Some(PopularRadiusMiles)]
    ELSE IF TruthyStr(city) THEN [EmptyFilters EXCEPT !.city = city]
    ELSE [EmptyFilters EXCEPT !.city = Some(DefaultCity)]

\* Array.prototype.slice(0, n)
SliceFirst(seq, n) == SubSeq(seq, 1, IF Len(seq) < n THEN Len(seq) ELSE n)

\* longest result list of a provider response to a popular search
MaxPopularResults == 13

\* the i-th record of the provider's ranking
RankedRecord(i) == BaseRecord(<<"P">> \o NatToStr(i))

\* the provider's responses to a popular search: the first n records of its
\* ranking, or a failure
PopularResponses ==
    { [kind |-> "ok", json |-> Some([results |-> Some([i \in 1..n |-> RankedRecord(i)])])] :
        n \in 0..MaxPopularResults }
    \cup { [kind |-> "network_error", message |-> <<"Failed to fetch">>],
           [kind |-> "http", status |-> 500, statusText |-> StatusText(500),
            errorData |-> None] }

\* the arguments the model calls getPopularEvents with
PopularCities == {None, Some(<<>>), Some(PlaceLagos)}

PopularLatitudes == {None, Some(0), Some(6)}

PopularLongitudes == {None, Some(0), Some(3)}

PopularInit ==
    /\ tr = IdleTransform
    /\ config \in Configs
    /\ se = IdleSearch
    /\ ge = IdleLookup
    /\ ba = IdleBatch
    /\ requests = <<>>
    /\ po = IdlePopular
    /\ storage = None
    /\ ctx = IdleContexts
    /\ gc = IdleGeocode
    /\ session = {}
    /\ dp = IdleDetail
    /\ sf = IdleFilters
    /\ dash = IdleDash

\* lines 491-506: the call, up to the first await of searchEvents
PopularCall(city, lat, lon) ==
    /\ po.pc = "idle"
    /\ SearchStart(PopularFilters(city, lat, lon))
    /\ po' = [pc |-> "searching", city |-> city, lat |-> lat, lon |-> lon, result |-> None]
    /\ UNCHANGED <<tr, config, ge, ba, storage, ctx>>
    /\ UNCHANGED pageVars

\* lines 506-509: searchEvents has ended; its error is passed on, its events are cut
PopularReturn ==
    /\ po.pc = "searching" /\ se.pc = "done"
    /\ po' = [po EXCEPT !.pc = "done",
                        !.result = Some(IF se.result[1].ok
                                        THEN Returned(SliceFirst(se.result[1].value, PopularLimit))
                                        ELSE se.result[1])]
    /\ UNCHANGED <<tr, config, se, ge, ba, requests, storage, ctx>>
    /\ UNCHANGED pageVars

PopularNext ==
    \/ \E city \in PopularCities, lat \in PopularLatitudes, lon \in PopularLongitudes :
          PopularCall(city, lat, lon)
    \/ \E resp \in GeocodeResponses : GeocodeReturn(resp)
    \/ \E resp \in PopularResponses : SearchRespond(resp)
    \/ PopularReturn

SpecPopular == PopularInit /\ [][PopularNext]_vars

(***************************************************************************)
(* Properties of getPopularEvents, checked under SpecPopular               *)
(***************************************************************************)
\* C14 (as claimed): getPopularEvents returns at most 12 events, the first 12 of
\* the provider's order; with both coordinates supplied (0 included) the search
\* is around them with a radius of 50 miles, with only a city that city is
\* searched, and with no location the default city.
C14_PopularFirstTwelve ==
    /\ po.pc \in {"searching", "done"} =>
          /\ (IsSome(po.lat) /\ IsSome(po.lon)) =>
                /\ se.filters.latitude = po.lat /\ se.filters.longitude = po.lon
                /\ se.filters.radius = Some(PopularRadiusMiles)
                /\ se.filters.city = None
          /\ (~IsSome(po.lat) /\ ~IsSome(po.lon) /\ TruthyStr(po.city)) =>
                se.filters = [EmptyFilters EXCEPT !.city = po.city]
          /\ (~IsSome(po.lat) /\ ~IsSome(po.lon) /\ ~TruthyStr(po.city)) =>
                se.filters = [EmptyFilters EXCEPT !.city = Some(DefaultCity)]
    /\ (po.pc = "done" /\ po.result[1].ok) =>
          /\ Len(po.result[1].value) <= PopularLimit
          /\ Len(po.result[1].value) <= Len(ResultsOf(se.response[1]))
          /\ Len(po.result[1].value) = PopularLimit
                \/ Len(po.result[1].value) = Len(ResultsOf(se.response[1]))
          /\ \A i \in 1..Len(po.result[1].value) :
                po.result[1].value[i] = transformEvent(ResultsOf(se.response[1])[i])

(***************************************************************************)
(* Saved events in localStorage (src/unnamed/part_005)                     *)
(*                                                                         *)
(* storage is the item stored under SAVED_EVENTS_KEY: None when there is   *)
(* none, else its text.  Every browsing context has a window; a call of    *)
(* saveEventId or removeEventId reads the item (getItem) and writes it     *)
(* back (setItem) as two steps, between which another context may act on   *)
(* the same storage; a call runs to its end before the same context starts *)
(* another.  setItem and removeItem succeed.                               *)
(***************************************************************************)
\* JSON.stringify of an array of strings
JSONStringify(ids) ==
    <<"[">> \o JoinWith([i \in 1..Len(ids) |-> <<"\"">> \o ids[i] \o <<"\"">>], <<",">>)
        \o <<"]">>

\* JSON.parse of the text of an array of strings (without commas or quotes inside)
JSONParse(text) ==
    LET inner == SubSeq(text, 2, Len(text) - 1)
        items == IF inner = <<>> THEN <<>> ELSE SplitOn(inner, ",", <<>>)
    IN  [i \in 1..Len(items) |-> SubSeq(items[i], 2, Len(items[i]) - 1)]

\* lines 17-32, for the stored item store
getSavedEventIds(store) == IF ~TruthyStr(store) THEN <<>> ELSE JSONParse(store[1])

\* SavedIncludes with the test of line 46 always false
SavedIncludes_Never(saved, eventId) == FALSE

\* line 46: saved.includes(eventId)
SavedIncludes(saved, eventId) == \E i \in 1..Len(saved) : saved[i] = eventId

\* a setItem that first merges the array with the ids stored meanwhile
WrittenItem_Merged(saved, store) ==
    LET stored == getSavedEventIds(store)
        missing == SelectSeq(stored, LAMBDA id : ~SavedIncludes(saved, id))
    IN  Some(JSONStringify(missing \o saved))

\* lines 48 and 68: the item after setItem(SAVED_EVENTS_KEY, JSON.stringify(saved)),
\* store being the item before
WrittenItem(saved, store) == Some(JSONStringify(saved))

\* a removal that empties the array
WithoutId_DropAll(saved, eventId) == <<>>

\* line 66: saved.filter((id) => id !== eventId)
WithoutId(saved, eventId) == SelectSeq(saved, LAMBDA id : id # eventId)

\* lines 80-83, for the stored item store
isEventSaved(store, eventId) == SavedIncludes(getSavedEventIds(store), eventId)

\* the event ids the contexts save and remove
SavedIds == {<<"A">>, <<"B">>}

SavedInit ==
    /\ tr = IdleTransform
    /\ config = IdleConfig
    /\ se = IdleSearch
    /\ ge = IdleLookup
    /\ ba = IdleBatch
    /\ requests = <<>>
    /\ po = IdlePopular
    /\ storage = None
    /\ ctx = IdleContexts
    /\ gc = IdleGeocode
    /\ session = {}
    /\ dp = IdleDetail
    /\ sf = IdleFilters
    /\ dash = IdleDash

\* lines 39-47: saveEventId reads the array and, unless it has the id, pushes it
saveEventIdRead(c, eventId) ==
    /\ ctx[c].pc = "idle"
    /\ LET saved == getSavedEventIds(storage)
       IN  ctx' = [ctx EXCEPT ![c] =
                     IF SavedIncludes(saved, eventId)
                     THEN [pc |-> "idle", op |-> "save", eventId |-> eventId,
                           read |-> saved, saved |-> saved]
                     ELSE [pc |-> "read", op |-> "save", eventId |-> eventId,
                           read |-> saved, saved |-> Append(saved, eventId)]]
    /\ UNCHANGED <<tr, config, se, ge, ba, requests, po, storage>>
    /\ UNCHANGED pageVars

\* lines 60-67: removeEventId reads the array and filters the id out
removeEventIdRead(c, eventId) ==
    /\ ctx[c].pc = "idle"
    /\ LET saved == getSavedEventIds(storage)
       IN  ctx' = [ctx EXCEPT ![c] =
                     [pc |-> "read", op |-> "remove", eventId |-> eventId, read |-> saved,
                      saved |-> WithoutId(saved, eventId)]]
    /\ UNCHANGED <<tr, config, se, ge, ba, requests, po, storage>>
    /\ UNCHANGED pageVars

\* lines 48 and 68: the setItem of the call in progress in context c
savedWrite(c) ==
    /\ ctx[c].pc = "read"
    /\ storage' = WrittenItem(ctx[c].saved, storage)
    /\ ctx' = [ctx EXCEPT ![c].pc = "idle"]
    /\ UNCHANGED <<tr, config, se, ge, ba, requests, po>>
    /\ UNCHANGED pageVars

\* lines 88-98
clearSavedEvents(c) ==
    /\ ctx[c].pc = "idle"
    /\ storage' = None
    /\ ctx' = [ctx EXCEPT ![c] = [IdleContext EXCEPT !.op = "clear"]]
    /\ UNCHANGED <<tr, config, se, ge, ba, requests, po>>
    /\ UNCHANGED pageVars

SavedNext ==
    \/ \E c \in Contexts, eventId \in SavedIds : saveEventIdRead(c, eventId)
    \/ \E c \in Contexts, eventId \in SavedIds : removeEventIdRead(c, eventId)
    \/ \E c \in Contexts : savedWrite(c)
    \/ \E c \in Contexts : clearSavedEvents(c)

SpecSaved == SavedInit /\ [][SavedNext]_vars

(***************************************************************************)
(* Properties of the saved-events service, checked under SpecSaved         *)
(***************************************************************************)
\* no element occurs twice in the sequence
NoDuplicates(seq) == \A i, j \in 1..Len(seq) : i # j => seq[i] # seq[j]

\* C17: from empty storage, after any interleaving across contexts of saveEventId,
\* removeEventId and clearSavedEvents, the stored array of saved ids has no
\* duplicate.
C17_SavedIdsUnique == NoDuplicates(getSavedEventIds(storage))

\* C17 witness: both contexts have saved the same id, each having read the
\* storage before the other wrote (neither found the id), and the id is stored.
C17_Witness ==
    /\ \A c \in Contexts :
          /\ ctx[c].pc = "idle" /\ ctx[c].op = "save" /\ ctx[c].eventId = <<"A">>
          /\ ~SavedIncludes(ctx[c].read, <<"A">>)
    /\ SavedIncludes(getSavedEventIds(storage), <<"A">>)

\* the array a call leaves, by its operation, of the array it read
ArrayAfter(op, eventId, read) ==
    IF op = "save" THEN read \o <<eventId>>
    ELSE SelectSeq(read, LAMBDA id : id # eventId)

\* C18: a write of a save or remove call sets the stored array to exactly the
\* array the writer made of what it had read, whatever another context has
\* stored between that read and this write (the last writer wins, the other
\* change may be lost), the stored item being always the text of an array of ids.
C18_LastWriteWins ==
    [][\A c \in Contexts :
          (ctx[c].pc = "read" /\ ctx'[c].pc = "idle") =>
              /\ getSavedEventIds(storage') =
                    ArrayAfter(ctx[c].op, ctx[c].eventId, ctx[c].read)
              /\ storage' = Some(JSONStringify(getSavedEventIds(storage')))]_vars

\* C18 witness: context 1 saved A and context 2 saved B, both having read the
\* empty storage; only one of the two ids is stored, the other being lost.
C18_Witness ==
    /\ ctx[1].pc = "idle" /\ ctx[1].op = "save" /\ ctx[1].eventId = <<"A">>
    /\ ctx[2].pc = "idle" /\ ctx[2].op = "save" /\ ctx[2].eventId = <<"B">>
    /\ ctx[1].read = <<>> /\ ctx[2].read = <<>>
    /\ getSavedEventIds(storage) = <<<<"B">>>>

\* the ids of the sequence other than eventId, in their order
OtherIds(seq, eventId) == SelectSeq(seq, LAMBDA id : id # eventId)

C29_AtMostOneFreeTextTerm ==
    \A i \in 1..Len(requests) :
        requests[i].to = "provider" => Len(ParamValues(requests[i].params, "q")) <= 1

(***************************************************************************)
(* Specification of one call of geocodeLocation (predicthq.ts 138-199),    *)
(* with places and candidates that exercise every test of the country      *)
(* heuristic                                                               *)
(***************************************************************************)
PlaceGhana == <<"G", "h", "a", "n", "a">>

\* the place names geocodeLocation is called with
GeocodePlaces ==
    { PlaceLagos, PlaceNigeria,
      <<"A", "c", "c", "r", "a", ",", " ">> \o PlaceGhana,
      <<"C", "o", "u", "n", "t", "r", "y", "s", "i", "d", "e">> }

\* the first candidates of the geocoding responses: every combination of class,
\* type, importance (in hundredths) and address
HeuristicCandidates ==
    [lat : {<<"6">>}, lon : {<<"3">>},
     class : {None, Some(TextPlace), Some(<<"b", "o", "u", "n", "d", "a", "r", "y">>)},
     type : {TextCountry, TextCity, TextTown \o <<"s", "h", "i", "p">>,
             <<"v", "i", "l", "l", "a", "g", "e">>},
     importance : {10, 30, 60},
     address : {None,
                Some([country |-> Some(PlaceGhana), country_code |-> Some(<<"g", "h">>)]),
                Some([country |-> Some(PlaceGhana), country_code |-> None])}]

HeuristicResponses ==
    { [kind |-> "network_error"], [kind |-> "ok", results |-> Some(<<>>)] }
    \cup { [kind |-> "ok", results |-> Some(<<c>>)] : c \in HeuristicCandidates }

GeocodeInit ==
    /\ tr = IdleTransform
    /\ config = IdleConfig
    /\ se = IdleSearch
    /\ ge = IdleLookup
    /\ ba = IdleBatch
    /\ requests = <<>>
    /\ po = IdlePopular
    /\ storage = None
    /\ ctx = IdleContexts
    /\ gc = IdleGeocode
    /\ session = {}
    /\ dp = IdleDetail
    /\ sf = IdleFilters
    /\ dash = IdleDash

\* lines 138-153: the call, up to the await of fetch
GeocodeCall(location) ==
    /\ gc.pc = "idle"
    /\ gc' = [gc EXCEPT !.pc = "fetching", !.location = location]
    /\ requests' = Append(requests, GeocodeRequest(location))
    /\ UNCHANGED <<tr, config, se, ge, ba, po, storage, ctx, session, dp, sf, dash>>

\* lines 154-198: the request settles and geocodeLocation returns
GeocodeSettle(resp) ==
    /\ gc.pc = "fetching"
    /\ gc' = [gc EXCEPT !.pc = "done", !.response = Some(resp),
                        !.result = geocodeLocation(gc.location, resp)]
    /\ UNCHANGED <<tr, config, se, ge, ba, requests, po, storage, ctx, session, dp, sf, dash>>

GeocodeNext ==
    \/ \E location \in GeocodePlaces : GeocodeCall(location)
    \/ \E resp \in HeuristicResponses : GeocodeSettle(resp)

SpecGeocode == GeocodeInit /\ [][GeocodeNext]_vars

(***************************************************************************)
(* Properties of the country heuristic, checked under SpecGeocode          *)
(***************************************************************************)
\* the three conditions of the claimed heuristic, for the place name and the
\* first candidate: the provider's type is country; the importance is below 0.3
\* and the type has neither "city" nor "town"; the name has a known-country text
ClaimedCountryScale(location, candidate) ==
    \/ candidate.type = TextCountry
    \/ /\ candidate.importance < 30
       /\ ~Includes(candidate.type, TextCity) /\ ~Includes(candidate.type, TextTown)
    \/ Includes(toLowerCase(location), TextNigeria)
    \/ Includes(toLowerCase(location), TextCountry)

\* the place name contains, whatever the case, the country name of the
\* candidate's address, the address having a country code too
NamesCandidateCountry(location, candidate) ==
    /\ IsSome(candidate.address)
    /\ TruthyStr(candidate.address[1].country_code)
    /\ TruthyStr(candidate.address[1].country)
    /\ Includes(toLowerCase(location), toLowerCase(candidate.address[1].country[1]))

\* C23 (as claimed): a geocoded result is flagged country-scale exactly when one
\* of the three conditions holds, and city-scale in every other case.
C23_CountryHeuristic ==
    (gc.pc = "done" /\ IsSome(gc.result)) =>
        (gc.result[1].isCountry
            <=> ClaimedCountryScale(gc.location, gc.response[1].results[1][1]))

\* C23 (amended): a geocoded result is flagged country-scale exactly when one of
\* the three conditions holds or the place name contains the country name of the
\* result's address (which then has a country code as well).
C23_CountryHeuristicWithAddress ==
    (gc.pc = "done" /\ IsSome(gc.result)) =>
        (gc.result[1].isCountry
            <=> \/ ClaimedCountryScale(gc.location, gc.response[1].results[1][1])
                \/ NamesCandidateCountry(gc.location, gc.response[1].results[1][1]))

\* C23 witness: "Accra, Ghana" resolved to a city of importance 0.6 whose address
\* names the country Ghana: the result is flagged country-scale.
C23_Witness ==
    /\ gc.pc = "done" /\ IsSome(gc.result)
    /\ Includes(gc.location, PlaceGhana)
    /\ gc.response[1].results[1][1].type = TextCity
    /\ gc.response[1].results[1][1].importance = 60
    /\ NamesCandidateCountry(gc.location, gc.response[1].results[1][1])
    /\ gc.result[1].isCountry

(***************************************************************************)
(* Specification of the event card and the event detail page              *)
(* (src/unnamed/part_000 and part_003): a card of the list is clicked or   *)
(* the page is opened by its address, then the page's effect loads the     *)
(* event.  session is the tab's sessionStorage, a set of items.  The       *)
(* in-memory cache of src/unnamed/part_001 has no caller in the            *)
(* repository: no step stores an event in it or reads it.                  *)
(***************************************************************************)
\* part_000 line 92: the key of the item the card stores
SessionKey(eventId) == <<"event_">> \o eventId

\* part_000 line 92: the item of the event; its value is the JSON text of the
\* event, which no code of the repository parses, held here as the event itself
SessionItem(event) == [key |-> SessionKey(event.id), value |-> event]

\* sessionStorage.setItem: the item replaces the one of the same key
SessionSet(items, item) == {it \in items : it.key # item.key} \cup {item}

\* the events the cards of the list show
CardEvents == {transformEvent(r) : r \in ResultPool}

\* the route parameter of the detail page: absent, empty, blank or an event id
RouteIds == {None, Some(<<>>), Some(<<" ">>)} \cup {Some(id) : id \in EventIds}

\* part_003 line 45: !eventId || typeof eventId !== 'string' || eventId.trim() === ''
InvalidEventId(eventId) ==
    ~TruthyStr(eventId) \/ \A i \in 1..Len(eventId[1]) : eventId[1][i] = " "

\* part_003 line 46
InvalidIdMessage == <<"Invalid event ID. Please check the URL and try again.">>

DetailInit ==
    /\ tr = IdleTransform
    /\ config \in Configs
    /\ se = IdleSearch
    /\ ge = IdleLookup
    /\ ba = IdleBatch
    /\ requests = <<>>
    /\ po = IdlePopular
    /\ storage \in {None, Some(JSONStringify(<<<<"A">>>>))}
    /\ ctx = IdleContexts
    /\ gc = IdleGeocode
    /\ session = {}
    /\ dp = IdleDetail
    /\ sf = IdleFilters
    /\ dash = IdleDash

\* part_000 lines 90-98: the click on a card stores the event in sessionStorage
\* and the link opens the detail page of the event
ViewDetails(event) ==
    /\ dp.pc = "idle"
    /\ session' = SessionSet(session, SessionItem(event))
    /\ dp' = [IdleDetail EXCEPT !.pc = "mounted", !.eventId = Some(event.id)]
    /\ UNCHANGED <<tr, config, se, ge, ba, requests, po, storage, ctx, gc, sf, dash>>

\* part_003 lines 30-40: the page is opened by its address
OpenDetail(eventId) ==
    /\ dp.pc = "idle"
    /\ dp' = [IdleDetail EXCEPT !.pc = "mounted", !.eventId = eventId]
    /\ UNCHANGED <<tr, config, se, ge, ba, requests, po, storage, ctx, gc, session, sf, dash>>

\* part_003 lines 43-55 and 66: the effect checks the id and calls loadEvent,
\* which calls getEventById; that call throws the configuration error
\* (predicthq.ts 520-530), handled at lines 58-63, or issues its request
DetailLoad ==
    /\ dp.pc = "mounted"
    /\ IF InvalidEventId(dp.eventId)
       THEN /\ dp' = [dp EXCEPT !.pc = "done", !.error = Some(InvalidIdMessage),
                                !.loading = FALSE]
            /\ UNCHANGED requests
       ELSE IF IsSome(ConfigError(config))
       THEN /\ dp' = [dp EXCEPT !.pc = "done", !.error = Some(ConfigError(config)[1]),
                                !.loading = FALSE]
            /\ UNCHANGED requests
       ELSE /\ dp' = [dp EXCEPT !.pc = "fetching", !.loading = TRUE, !.error = None]
            /\ requests' = Append(requests, GetByIdRequest(dp.eventId[1]))
    /\ UNCHANGED <<tr, config, se, ge, ba, po, storage, ctx, gc, session, sf, dash>>

\* part_003 lines 55-63: getEventById returns (predicthq.ts 549-600) and the
\* page shows the event and whether it is saved, or the error
DetailSettle(resp) ==
    /\ dp.pc = "fetching"
    /\ LET outcome == GetByIdOutcome(dp.eventId[1], resp)
       IN  dp' = IF outcome.ok
                 THEN [dp EXCEPT !.pc = "done", !.event = Some(outcome.value),
                                 !.isSaved = isEventSaved(storage, dp.eventId[1]),
                                 !.loading = FALSE]
                 ELSE [dp EXCEPT !.pc = "done", !.error = Some(outcome.message),
                                 !.loading = FALSE]
    /\ UNCHANGED <<tr, config, se, ge, ba, requests, po, storage, ctx, gc, session, sf, dash>>

DetailNext ==
    \/ \E event \in CardEvents : ViewDetails(event)
    \/ \E eventId \in RouteIds : OpenDetail(eventId)
    \/ DetailLoad
    \/ \E resp \in ProviderResponses : DetailSettle(resp)

SpecDetail == DetailInit /\ [][DetailNext]_vars

(***************************************************************************)
(* Properties of the event detail page, checked under SpecDetail           *)
(***************************************************************************)
\* sessionStorage holds the event of the id the detail page shows
StoredForDetail ==
    /\ TruthyStr(dp.eventId)
    /\ \E it \in session : it.key = SessionKey(dp.eventId[1])

\* C24: when the detail page loads an event whose data a card has stored, it
\* issues no getEventById request; a request is issued only when nothing is
\* stored for the id.
C24_StoredEventNotFetched ==
    (dp.pc \in {"fetching", "done"} /\ StoredForDetail) => requests = <<>>

(***************************************************************************)
(* Specification of the discover page (dashboard/page.tsx) with its        *)
(* SearchFilters component.  A user input is one step: the component's     *)
(* handler, handleFiltersChange, the render and the effects whose          *)
(* dependencies changed, each up to its first await.  dash.searches is the *)
(* history of the searchEvents calls of the search effect (result None     *)
(* while the call is in flight) and dash.loads the getPopularEvents calls  *)
(* in flight.  The filters object is held by whether it has own keys       *)
(* (getCurrentFilters always gives the five keys) and by its query and     *)
(* city; the date and price inputs are left untouched.                     *)
(***************************************************************************)
\* the user inputs of one run of the page
MaxInputs == 2

\* page.tsx line 101: searchFilters.radius = 25
DashboardRadiusMiles == 25

\* the texts typed in the search box and in the city box
QueryTexts == {<<>>, <<"jazz">>}

CityTexts == {<<>>, PlaceLagos}

\* the positions the browser reports
Positions == {[lat |-> 6, lon |-> 3]}

\* the provider's responses behind the page's searchEvents and getPopularEvents calls
DiscoverResponses ==
    {[kind |-> "network_error", message |-> <<"Failed to fetch">>]}
    \cup { [kind |-> "ok", json |-> Some([results |-> Some(<<r>>)])] : r \in ResultPool }

\* value || undefined
OrUndefined(text) == IF text = <<>> THEN None ELSE Some(text)

\* SearchFilters.tsx lines 113-121: an object with the five keys, whatever the values
getCurrentFilters(s) ==
    [hasKeys |-> TRUE, query |-> OrUndefined(s.searchQuery), city |-> OrUndefined(s.city)]

\* Object.keys(filters).length
KeyCount(filters) == IF filters.hasKeys THEN 5 ELSE 0

\* page.tsx lines 62-69: the getPopularEvents call of loadPopularEvents
PopularArgs(d) ==
    IF IsSome(d.userLocation)
    THEN [city |-> None, position |-> d.userLocation, reload |-> FALSE]
    ELSE IF TruthyStr(d.filters.city)
    THEN [city |-> d.filters.city, position |-> None, reload |-> FALSE]
    ELSE [city |-> Some(DefaultCity), position |-> None, reload |-> FALSE]

\* page.tsx lines 132-136: the getPopularEvents call of reloadPopular
ReloadArgs(d) ==
    IF IsSome(d.userLocation)
    THEN [city |-> None, position |-> d.userLocation, reload |-> TRUE]
    ELSE [city |-> Some(DefaultCity), position |-> None, reload |-> TRUE]

\* page.tsx lines 93-102: the filters passed to searchEvents
SearchFiltersOf(d) ==
    LET spread == [EmptyFilters EXCEPT !.query = d.filters.query, !.city = d.filters.city]
    IN  IF IsSome(d.userLocation) /\ ~TruthyStr(d.filters.city)
        THEN [spread EXCEPT !.latitude = Some(d.userLocation[1].lat),
                            !.longitude = Some(d.userLocation[1].lon),
                            !.radius = Some(DashboardRadiusMiles)]
        ELSE spread

\* page.tsx lines 120-145: handleFiltersChange up to the await of reloadPopular
HandleFiltersChange(d, newFilters) ==
    IF KeyCount(newFilters) = 0
    THEN [d EXCEPT !.filters = newFilters, !.showPopular = TRUE, !.events = <<>>,
                   !.loads = Append(@, ReloadArgs(d))]
    ELSE [d EXCEPT !.filters = newFilters]

\* page.tsx lines 85-87 and 113-115: whether the search effect calls searchEvents
SearchEffectRuns(d) ==
    KeyCount(d.filters) > 0 /\ ~(KeyCount(d.filters) = 0 /\ ~d.showPopular)

\* page.tsx lines 54-117: the render after a state change from d0 to d1, with the
\* effects whose dependencies changed (filtersSet: setFilters was called, with a
\* new object): the popular effect (lines 54-80), then the search effect
\* (lines 83-117), each up to its await
RunEffects(d0, d1, filtersSet) ==
    LET popularDeps == \/ d0.userLocation # d1.userLocation
                       \/ d0.filters.city # d1.filters.city
                       \/ d0.showPopular # d1.showPopular
        d2 == IF popularDeps /\ d1.showPopular /\ d1.popularEvents = <<>>
              THEN [d1 EXCEPT !.loading = TRUE, !.loads = Append(@, PopularArgs(d1))]
              ELSE d1
        searchDeps == filtersSet \/ d0.userLocation # d1.userLocation
    IN  IF searchDeps /\ SearchEffectRuns(d1)
        THEN [d2 EXCEPT !.searchLoading = TRUE, !.showPopular = FALSE,
                        !.searches = Append(@, [applied |-> d1.filters,
                                                filters |-> SearchFiltersOf(d1),
                                                result |-> None])]
        ELSE d2

\* the sequence without its j-th element
RemoveAt(seq, j) == SubSeq(seq, 1, j - 1) \o SubSeq(seq, j + 1, Len(seq))

DiscoverInit ==
    /\ tr = IdleTransform
    /\ config = IdleConfig
    /\ se = IdleSearch
    /\ ge = IdleLookup
    /\ ba = IdleBatch
    /\ requests = <<>>
    /\ po = IdlePopular
    /\ storage = None
    /\ ctx = IdleContexts
    /\ gc = IdleGeocode
    /\ session = {}
    /\ dp = IdleDetail
    /\ sf = IdleFilters
    /\ dash = IdleDash

\* page.tsx lines 32-117 at the first render, where every effect runs (the state
\* before it is taken to differ in every dependency): the position is asked for,
\* the popular effect loads the events of the default city, the search effect
\* does nothing for the filters {}
DiscoverMount ==
    /\ dash.pc = "unmounted"
    /\ dash' = [RunEffects([dash EXCEPT !.showPopular = FALSE], dash, TRUE)
                   EXCEPT !.pc = "mounted", !.geo = "pending"]
    /\ UNCHANGED <<tr, config, se, ge, ba, requests, po, storage, ctx, gc, session, dp, sf>>

\* page.tsx lines 35-40: the browser reports the position; the effects that
\* depend on userLocation run again
LocationFound(position) ==
    /\ dash.pc = "mounted" /\ dash.geo = "pending"
    /\ dash' = RunEffects(dash, [dash EXCEPT !.geo = "found",
                                             !.userLocation = Some(position)], FALSE)
    /\ UNCHANGED <<tr, config, se, ge, ba, requests, po, storage, ctx, gc, session, dp, sf>>

\* page.tsx lines 41-46: the position is refused
LocationDenied ==
    /\ dash.pc = "mounted" /\ dash.geo = "pending"
    /\ dash' = [dash EXCEPT !.geo = "denied"]
    /\ UNCHANGED <<tr, config, se, ge, ba, requests, po, storage, ctx, gc, session, dp, sf>>

\* SearchFilters.tsx lines 31-34 and 124-126, then page.tsx lines 120-145
handleSearch(value) ==
    /\ dash.pc = "mounted" /\ dash.inputs < MaxInputs
    /\ value # sf.searchQuery
    /\ sf' = [sf EXCEPT !.searchQuery = value]
    /\ LET newFilters == [getCurrentFilters(sf) EXCEPT !.query = OrUndefined(value)]
       IN  dash' = [RunEffects(dash, HandleFiltersChange(dash, newFilters), TRUE)
                       EXCEPT !.inputs = @ + 1]
    /\ UNCHANGED <<tr, config, se, ge, ba, requests, po, storage, ctx, gc, session, dp>>

\* SearchFilters.tsx lines 37-40 and 124-126, then page.tsx lines 120-145
handleCityChange(value) ==
    /\ dash.pc = "mounted" /\ dash.inputs < MaxInputs
    /\ value # sf.city
    /\ sf' = [sf EXCEPT !.city = value]
    /\ LET newFilters == [getCurrentFilters(sf) EXCEPT !.city = OrUndefined(value)]
       IN  dash' = [RunEffects(dash, HandleFiltersChange(dash, newFilters), TRUE)
                       EXCEPT !.inputs = @ + 1]
    /\ UNCHANGED <<tr, config, se, ge, ba, requests, po, storage, ctx, gc, session, dp>>

\* SearchFilters.tsx lines 129-138 and 222-224 (the button is shown while an
\* input has a value), then page.tsx lines 120-145
clearFilters ==
    /\ dash.pc = "mounted" /\ dash.inputs < MaxInputs
    /\ sf.searchQuery # <<>> \/ sf.city # <<>>
    /\ sf' = IdleFilters
    /\ dash' = [RunEffects(dash, HandleFiltersChange(dash, NoFilterKeys), TRUE)
                   EXCEPT !.inputs = @ + 1]
    /\ UNCHANGED <<tr, config, se, ge, ba, requests, po, storage, ctx, gc, session, dp>>

\* page.tsx lines 104-111: the i-th searchEvents call settles
SearchSettle(i, resp) ==
    /\ i \in 1..Len(dash.searches) /\ ~IsSome(dash.searches[i].result)
    /\ LET outcome == SearchOutcome(resp)
       IN  dash' = [dash EXCEPT !.searches[i].result = Some(outcome),
                                !.events = IF outcome.ok THEN outcome.value ELSE @,
                                !.searchLoading = FALSE]
    /\ UNCHANGED <<tr, config, se, ge, ba, requests, po, storage, ctx, gc, session, dp, sf>>

\* page.tsx lines 62-77 and 132-141: the j-th getPopularEvents call in flight
\* settles (predicthq.ts line 509: the first 12 events of the search)
PopularSettle(j, resp) ==
    /\ j \in 1..Len(dash.loads)
    /\ LET outcome == SearchOutcome(resp)
       IN  dash' = [dash EXCEPT
                       !.loads = RemoveAt(@, j),
                       !.popularEvents = IF outcome.ok
                                         THEN SliceFirst(outcome.value, PopularLimit) ELSE @,
                       !.loading = IF dash.loads[j].reload THEN @ ELSE FALSE]
    /\ UNCHANGED <<tr, config, se, ge, ba, requests, po, storage, ctx, gc, session, dp, sf>>

DiscoverNext ==
    \/ DiscoverMount
    \/ \E position \in Positions : LocationFound(position)
    \/ LocationDenied
    \/ \E value \in QueryTexts : handleSearch(value)
    \/ \E value \in CityTexts : handleCityChange(value)
    \/ clearFilters
    \/ \E i \in 1..Len(dash.searches), resp \in DiscoverResponses : SearchSettle(i, resp)
    \/ \E j \in 1..Len(dash.loads), resp \in DiscoverResponses : PopularSettle(j, resp)

SpecDiscover == DiscoverInit /\ [][DiscoverNext]_vars

(***************************************************************************)
(* Properties of the discover page, checked under SpecDiscover             *)
(***************************************************************************)
\* no filter field has a value
NoFilterValue(filters) == ~TruthyStr(filters.query) /\ ~TruthyStr(filters.city)

\* C25: whenever a user input has left the filters without any value (by the
\* Clear Filters button or by emptying the inputs), the page is back in the
\* popular view: showPopular is true, the result list is empty, and no search
\* was issued for a filter set without a value.
C25_ClearedFiltersShowPopular ==
    /\ (dash.inputs > 0 /\ NoFilterValue(dash.filters)) =>
          dash.showPopular /\ dash.events = <<>>
    /\ \A i \in 1..Len(dash.searches) : ~NoFilterValue(dash.searches[i].applied)

\* C28: when the filters were changed after an earlier search had been issued,
\* then once every search has settled the displayed list is the result of the
\* search issued last, the one for the filters applied most recently, whatever
\* the order of the responses.
C28_LatestSearchDisplayed ==
    LET n == Len(dash.searches)
    IN  (/\ n >= 2
         /\ dash.searches[n - 1].applied # dash.searches[n].applied
         /\ \A i \in 1..n : IsSome(dash.searches[i].result)
         /\ dash.searches[n].applied = dash.filters
         /\ dash.searches[n].result[1].ok)
        => dash.events = dash.searches[n].result[1].value

====
